---- MODULE Spec2Model ----
(***************************************************************************)
(* Restic-Wings: the job orchestration and repository-state engine of the   *)
(* restic backup endpoints (src/internal/api/restic).                       *)
(*                                                                         *)
(* Modelled: the status files of the three operation kinds, the key file    *)
(* and the snapshots of one server's repository, the wall clock, and the    *)
(* handlers as sequences of steps that are cut at the subprocess calls and  *)
(* file accesses where Go can schedule another request.                     *)
(*                                                                         *)
(* Conventions: one server; the clock counts whole hours, so formatting a   *)
(* time as RFC3339 (seconds) and parsing it back keeps its value; a missing *)
(* status file reads as the zero record, which is what every caller of      *)
(* readBackupStatus does with the error; a snapshot's creation time is its  *)
(* id (restic stamps nanoseconds, so times are distinct and parseable);     *)
(* the repository size counts one unit per snapshot; local file writes      *)
(* succeed.                                                                 *)
(***************************************************************************)
EXTENDS Integers, Sequences, FiniteSets, TLC

\* ---------------------------------------------------------------- bounds
NumReqs == 2
MaxTime == 9
TickHours == 3
MaxSnaps == 3
MaxIdLen == 4
MaxWrites == 2
MaxEnv == 2
MaxPages == 4

\* ------------------------------------------------------ program constants
StaleHours == 6
ListLimitDefault == 25
ListLimitCap == 100
ReinitMaxSize == 1

Reqs == 1..NumReqs
Kinds == {"backup", "restore", "prepare"}
NoTime == -1
NoKey == <<>>
K1 == <<"a">>
K2 == <<"b">>

VARIABLES
    now,        \* wall clock, hours
    status,     \* [Kinds -> record]: the status file of each kind
    keyFile,    \* content of <repo>/.restic-key, a sequence of characters
    repoKey,    \* key the repository config was initialised with, NoKey: no config
    cfgRecent,  \* the config file is at most 2 minutes old
    snaps,      \* ids of the snapshots in the repository
    locked,     \* ids of the snapshots that carry the tag "locked"
    nextId,     \* id the next snapshot gets
    req,        \* [Reqs -> record]: the locals of each request
    poll,       \* [Kinds -> record]: what the last status poll read and answered
    api,        \* the lock/unlock/prune endpoints have been used
    scratch,    \* the scratch restore directory of the snapshot exists
    cache,      \* the prepared archive: "absent", "empty" or "full"
    arch,       \* the archive root and the last archive request
    build,      \* which of the two prepare handlers of the tree is compiled in
    fs,         \* one status file and its .tmp sibling, with their writers
    root,       \* the entries of the storage root and the last resolveRepoDir call
    cmd,        \* the daemon's environment and the Env of the last tool command
    lst,        \* the snapshots' times and tags, and the listing request in progress
    writer      \* the request whose tar created the file now at the cache path

vars == <<now, status, keyFile, repoKey, cfgRecent, snaps, locked, nextId, req, poll, api,
          scratch, cache, arch, build, fs, root, cmd, lst, writer>>

keyVars == <<keyFile, repoKey, cfgRecent>>

snapVars == <<snaps, locked, nextId>>

auxVars == <<cmd, lst, writer>>

tmpVars == <<scratch, cache, arch, build, fs, root, auxVars>>

\* ---------------------------------------------------------------- helpers
Merge(a, b) == [k \in DOMAIN a |-> IF k \in DOMAIN b THEN b[k] ELSE a[k]]

Min(a, b) == IF a < b THEN a ELSE b

Max(a, b) == IF a > b THEN a ELSE b

IsSpace(c) == c \in {" ", "\n", "\t"}

RECURSIVE TrimLeft(_)
TrimLeft(s) == IF s # <<>> /\ IsSpace(Head(s)) THEN TrimLeft(Tail(s)) ELSE s

RECURSIVE TrimRight(_)
TrimRight(s) ==
    IF s # <<>> /\ IsSpace(s[Len(s)]) THEN TrimRight(SubSeq(s, 1, Len(s) - 1)) ELSE s

TrimSpace(s) == TrimRight(TrimLeft(s))

RECURSIVE SortNewestFirst(_)
SortNewestFirst(S) ==
    IF S = {} THEN <<>>
    ELSE LET m == CHOOSE x \in S : \A y \in S : x >= y
         IN <<m>> \o SortNewestFirst(S \ {m})

\* ids of a set of snapshots, oldest first (sort.Slice on the parsed time)
RECURSIVE SortByTime(_)
SortByTime(S) ==
    IF S = {} THEN <<>>
    ELSE LET m == CHOOSE x \in S : \A y \in S : x <= y
         IN <<m>> \o SortByTime(S \ {m})

RepoSize == Cardinality(snaps)

\* ----------------------------------------------------------- status store
ZeroStatus == [status |-> "", startedAt |-> NoTime, finishedAt |-> NoTime, message |-> ""]

StaleMsg(kind) == IF kind = "backup" THEN "Backup appears stale. Please retry."
                  ELSE "Restore appears stale. Please retry."

BusyMsg == "Repository is busy. Please try again later."

MsgMax == 2000

RECURSIVE Repeat(_, _)
Repeat(s, n) ==
    IF n = 0 THEN ""
    ELSE IF n % 2 = 1 THEN s \o Repeat(s, n - 1)
         ELSE LET h == Repeat(s, n \div 2) IN h \o h

\* a tool diagnostic one character longer than a status message may be
LongDiag == Repeat("x", MsgMax + 1)

\* strings.TrimSpace on a string
RECURSIVE TrimSpaceStr(_)
TrimSpaceStr(s) ==
    IF Len(s) = 0 THEN s
    ELSE IF IsSpace(SubSeq(s, 1, 1)) THEN TrimSpaceStr(SubSeq(s, 2, Len(s)))
    ELSE IF IsSpace(SubSeq(s, Len(s), Len(s))) THEN TrimSpaceStr(SubSeq(s, 1, Len(s) - 1))
    ELSE s

\* truncateStatusMessage
TruncateStatusMessage(msg) ==
    LET trimmed == TrimSpaceStr(msg)
    IN IF Len(trimmed) <= MsgMax THEN trimmed ELSE SubSeq(trimmed, 1, MsgMax)

GuardOutcomeStrict(rec, t) ==
    IF rec.status = "running"
    THEN IF rec.startedAt # NoTime
         THEN IF t - rec.startedAt < StaleHours THEN "conflict" ELSE "reap"
         ELSE "conflict"
    ELSE "pass"

\* the guard at the head of the backup and restore handlers
GuardOutcome(rec, t) ==
    IF rec.status = "running"
    THEN IF rec.startedAt # NoTime
         THEN IF t - rec.startedAt <= StaleHours THEN "conflict" ELSE "reap"
         ELSE "conflict"
    ELSE "pass"

\* status.Status = "failed"; FinishedAt = now; default message
Reap(rec, t, kind) ==
    [rec EXCEPT !.status = "failed", !.finishedAt = t,
                !.message = IF @ = "" THEN StaleMsg(kind) ELSE @]

\* setBackupStatus, setRestoreStatus: the record written over `current`
SetStatus(current, st, message, t) ==
    IF st = "running"
    THEN [status |-> "running", startedAt |-> t, finishedAt |-> NoTime, message |-> ""]
    ELSE [status |-> st,
          startedAt |-> current.startedAt,
          finishedAt |-> IF st \in {"completed", "failed"} THEN t ELSE NoTime,
          message |-> IF message # "" THEN message ELSE current.message]

\* setRestoreStatus: as setBackupStatus, with the message clamped to 2000
SetRestoreStatus(current, st, message, t) ==
    SetStatus(current, st, IF Len(message) > MsgMax THEN SubSeq(message, 1, MsgMax) ELSE message, t)

PollStaleLate(rec, t) ==
    rec.status = "running" /\ rec.startedAt # NoTime /\ t - rec.startedAt > 2 * StaleHours

\* the status poll handlers: a `running` record past the staleness window
PollStale(rec, t) ==
    rec.status = "running" /\ rec.startedAt # NoTime /\ t - rec.startedAt > StaleHours

\* --------------------------------------------------------------- requests
ReqInit ==
    [kind |-> "none", pc |-> "idle", resp |-> "none",
     key |-> NoKey, maxBackups |-> 0, maxRepoBytes |-> 0, async |-> FALSE,
     resolved |-> NoKey, listed |-> {}, plan |-> <<>>, i |-> 0, out |-> "none",
     \* history
     at |-> NoTime, claimedAt |-> NoTime, sizeAt |-> 0,
     guardSaw |-> "none", before |-> ZeroStatus, sizeRes |-> "none",
     listRes |-> "none", tagsVia |-> "none", lockedAtList |-> {},
     forgot |-> <<>>, forgotLocked |-> {}, calls |-> 0, invoked |-> 0,
     unlocks |-> 0, reinits |-> 0,
     cacheAt |-> "none", unlockOk |-> FALSE, first |-> "none", recentAt |-> FALSE, duAt |-> FALSE, sizeAtFail |-> 0]

Step(r, changes) == req' = [req EXCEPT ![r] = Merge(req[r], changes)]

Others(r) == Reqs \ {r}

\* ------------------------------------------------- POST .../backups/restic
\* The retention plan of CreateServerResticBackup, from the listing `listed`
\* and the ids found locked: the unlocked snapshots, oldest first, cut to
\* toDelete = max(1, len(snapshots) - maxBackups + 1) entries.
Unlocked(listed, lockedIDs) == SortByTime(listed \ lockedIDs)

ToDelete(n, maxBackups) == Max(1, n - maxBackups + 1)

Plan(listed, lockedIDs, maxBackups) ==
    LET u == Unlocked(listed, lockedIDs)
    IN SubSeq(u, 1, Min(ToDelete(Cardinality(listed), maxBackups), Len(u)))

\* after the locked set is known: reject when nothing is unlocked, else forget
Planned(r, lockedIDs, via) ==
    LET u == Unlocked(req[r].listed, lockedIDs)
    IN IF Len(u) = 0
       THEN Step(r, [pc |-> "done", resp |-> "AllLocked", tagsVia |-> via])
       ELSE Step(r, [pc |-> "forget", i |-> 1, tagsVia |-> via,
                     plan |-> Plan(req[r].listed, lockedIDs, req[r].maxBackups)])

\* lines 19-68: the guard on the status file, then the body's parameters
CreateGuard(r, key, maxBackups, maxRepoBytes, async) ==
    /\ req[r].pc = "idle"
    /\ LET cur == status["backup"]
           g == GuardOutcome(cur, now)
           saw == IF g = "reap" THEN "stale" ELSE "pass"
           inp == [kind |-> "backup", key |-> key, maxBackups |-> maxBackups,
                   maxRepoBytes |-> maxRepoBytes, async |-> async, before |-> cur,
                   at |-> now]
       IN IF g = "conflict"
          THEN /\ Step(r, [pc |-> "done", resp |-> "Conflict", guardSaw |-> "fresh"] @@ inp)
               /\ UNCHANGED status
          ELSE /\ status' = IF g = "reap"
                            THEN [status EXCEPT !["backup"] = Reap(cur, now, "backup")]
                            ELSE status
               /\ IF key = NoKey
                  THEN Step(r, [pc |-> "done", resp |-> "BadRequest", guardSaw |-> saw] @@ inp)
                  ELSE Step(r, [pc |-> "resolve", guardSaw |-> saw] @@ inp)
    /\ UNCHANGED <<now, keyFile, repoKey, cfgRecent, snaps, locked, nextId, poll, api, tmpVars>>

\* resolveResticKey, first half: the stored key wins when the file holds one
CreateKeyRead(r) ==
    /\ req[r].pc = "resolve"
    /\ IF TrimSpace(keyFile) # NoKey
       THEN Step(r, [pc |-> "init", resolved |-> TrimSpace(keyFile)])
       ELSE Step(r, [pc |-> "keywrite"])
    /\ UNCHANGED <<now, status, keyFile, repoKey, cfgRecent, snaps, locked, nextId, poll, api, tmpVars>>

\* resolveResticKey, second half: persist the supplied key and return it
CreateKeyWrite(r) ==
    /\ req[r].pc = "keywrite"
    /\ keyFile' = req[r].key \o <<"\n">>
    /\ Step(r, [pc |-> "init", resolved |-> req[r].key])
    /\ UNCHANGED <<now, status, repoKey, cfgRecent, snaps, locked, nextId, poll, api, tmpVars>>

AfterInit(r) == IF req[r].maxRepoBytes > 0 THEN "size"
                ELSE IF req[r].maxBackups > 0 THEN "list" ELSE "claim"

\* lines 84-101: restic init when the repository has no config
CreateInit(r, ok) ==
    /\ req[r].pc = "init"
    /\ IF repoKey # NoKey
       THEN /\ ok
            /\ Step(r, [pc |-> AfterInit(r)])
            /\ UNCHANGED <<repoKey, cfgRecent>>
       ELSE IF ok
            THEN /\ repoKey' = req[r].resolved
                 /\ cfgRecent' = TRUE
                 /\ Step(r, [pc |-> AfterInit(r)])
            ELSE /\ Step(r, [pc |-> "done", resp |-> "InitFailed"])
                 /\ UNCHANGED <<repoKey, cfgRecent>>
    /\ UNCHANGED <<now, status, keyFile, snaps, locked, nextId, poll, api, tmpVars>>

\* lines 103-110: the byte ceiling, on the size du reports
CreateSizeCheck(r, duOk) ==
    /\ req[r].pc = "size"
    /\ LET next == IF req[r].maxBackups > 0 THEN "list" ELSE "claim"
       IN IF ~duOk
          THEN Step(r, [pc |-> next, sizeRes |-> "skipped", sizeAt |-> RepoSize])
          ELSE IF RepoSize >= req[r].maxRepoBytes
               THEN Step(r, [pc |-> "done", resp |-> "SizeLimit", sizeRes |-> "reached",
                             sizeAt |-> RepoSize])
               ELSE Step(r, [pc |-> next, sizeRes |-> "below", sizeAt |-> RepoSize])
    /\ UNCHANGED <<now, status, keyFile, repoKey, cfgRecent, snaps, locked, nextId, poll, api, tmpVars>>

CreateListAlways(r, mode) ==
    /\ req[r].pc = "list"
    /\ LET sawTags == mode = "inline" /\ locked # {}
           inp == [listed |-> snaps, lockedAtList |-> locked, listRes |-> "reached"]
           u == Unlocked(snaps, locked)
       IN IF mode = "fail"
          THEN Step(r, [pc |-> "claim", listRes |-> "fail"])
          ELSE IF FALSE
               THEN Step(r, [pc |-> "claim", listRes |-> "below"] @@ inp)
               ELSE IF ~sawTags
                    THEN Step(r, [pc |-> "fallback"] @@ inp)
                    ELSE IF Len(u) = 0
                         THEN Step(r, [pc |-> "done", resp |-> "AllLocked",
                                       tagsVia |-> "inline"] @@ inp)
                         ELSE Step(r, [pc |-> "forget", i |-> 1, tagsVia |-> "inline",
                                       plan |-> Plan(snaps, locked, req[r].maxBackups)] @@ inp)
    /\ UNCHANGED <<now, status, keyFile, repoKey, cfgRecent, snaps, locked, nextId, poll, api, tmpVars>>

\* lines 113-156, 178-220: restic snapshots --json. `mode` is what the tool
\* answers: "fail" (non-zero exit or output that is no JSON array), "inline"
\* (tags in the records that have any) or "omitted" (no record has tags).
CreateList(r, mode) ==
    /\ req[r].pc = "list"
    /\ LET sawTags == mode = "inline" /\ locked # {}
           inp == [listed |-> snaps, lockedAtList |-> locked, listRes |-> "reached"]
           u == Unlocked(snaps, locked)
       IN IF mode = "fail"
          THEN Step(r, [pc |-> "claim", listRes |-> "fail"])
          ELSE IF Cardinality(snaps) < req[r].maxBackups
               THEN Step(r, [pc |-> "claim", listRes |-> "below"] @@ inp)
               ELSE IF ~sawTags
                    THEN Step(r, [pc |-> "fallback"] @@ inp)
                    ELSE IF Len(u) = 0
                         THEN Step(r, [pc |-> "done", resp |-> "AllLocked",
                                       tagsVia |-> "inline"] @@ inp)
                         ELSE Step(r, [pc |-> "forget", i |-> 1, tagsVia |-> "inline",
                                       plan |-> Plan(snaps, locked, req[r].maxBackups)] @@ inp)
    /\ UNCHANGED <<now, status, keyFile, repoKey, cfgRecent, snaps, locked, nextId, poll, api, tmpVars>>

\* lines 157-176: restic snapshots --json --tag locked, its failure ignored
CreateLockedQuery(r, ok) ==
    /\ req[r].pc = "fallback"
    /\ IF ok THEN Planned(r, locked, "fallback") ELSE Planned(r, {}, "fallbackFailed")
    /\ UNCHANGED <<now, status, keyFile, repoKey, cfgRecent, snaps, locked, nextId, poll, api, tmpVars>>

\* lines 227-239: restic forget <id> --prune, one call per planned snapshot
CreateForget(r, res) ==
    /\ req[r].pc = "forget"
    /\ LET id == req[r].plan[req[r].i]
       IN /\ res = "ok" => id \in snaps
          /\ IF res = "ok"
             THEN /\ snaps' = snaps \ {id}
                  /\ locked' = locked \ {id}
                  /\ Step(r, [pc |-> IF req[r].i = Len(req[r].plan) THEN "claim" ELSE "forget",
                              i |-> req[r].i + 1, calls |-> req[r].calls + 1,
                              forgot |-> Append(req[r].forgot, id),
                              forgotLocked |-> req[r].forgotLocked \cup ({id} \cap locked)])
                  /\ UNCHANGED status
             ELSE IF res = "locked"
                  THEN /\ status' = [status EXCEPT !["backup"] =
                                        SetStatus(@, "failed", BusyMsg, now)]
                       /\ Step(r, [pc |-> "done", resp |-> "RepoBusy",
                                   calls |-> req[r].calls + 1])
                       /\ UNCHANGED <<snaps, locked>>
                  ELSE /\ Step(r, [pc |-> "done", resp |-> "PruneFailed",
                                   calls |-> req[r].calls + 1])
                       /\ UNCHANGED <<status, snaps, locked>>
    /\ UNCHANGED <<now, keyFile, repoKey, cfgRecent, nextId, poll, api, tmpVars>>

\* lines 245-255: setBackupStatus(running), then the answer of an async request
CreateClaim(r) ==
    /\ req[r].pc = "claim"
    /\ status' = [status EXCEPT !["backup"] = SetStatus(@, "running", "", now)]
    /\ Step(r, [pc |-> "backup", claimedAt |-> now,
                resp |-> IF req[r].async THEN "Accepted" ELSE "none"])
    /\ UNCHANGED <<now, keyFile, repoKey, cfgRecent, snaps, locked, nextId, poll, api, tmpVars>>

\* ------------------------------------------------ runBackupWithRecovery
\* What a failed restic call printed, as the signatures the code looks for:
\* "other" (none), "mismatch" (isKeyMismatchError), and isRepoLockedError with
\* a lock creation time at least 30 minutes old, younger, or not parseable.
FailOuts == {"other", "mismatch", "lockedOld", "lockedYoung", "lockedNoTs"}

\* failures without any of the signatures whose output is only white space,
\* or longer than a status message may be
QuietOuts == {"silent", "verbose"}

IsRepoLocked(out) == out \in {"lockedOld", "lockedYoung", "lockedNoTs"}

\* the combined output of the failed restic call
OutText(out) ==
    IF out = "silent" THEN " \n"
    ELSE IF out = "verbose" THEN LongDiag \o "\n"
    ELSE "diag\n"

\* restic accepts the key of the environment iff the repository was
\* initialised with it
ToolOut(r, out) ==
    /\ out \in FailOuts \cup QuietOuts \cup {"ok"}
    /\ out = "ok" => (repoKey # NoKey /\ req[r].resolved = repoKey)
    /\ out = "mismatch" => (repoKey # NoKey /\ req[r].resolved # repoKey)

\* a successful restic backup: the new snapshot, then setBackupStatus(completed)
Succeed(r) ==
    /\ snaps' = snaps \cup {nextId}
    /\ nextId' = nextId + 1
    /\ status' = [status EXCEPT !["backup"] = SetStatus(@, "completed", "", now)]
    /\ Step(r, [pc |-> "done", invoked |-> req[r].invoked + 1, out |-> "ok",
                first |-> IF req[r].first = "none" THEN "ok" ELSE req[r].first,
                resp |-> IF req[r].async THEN "Accepted" ELSE "OK"])
    /\ UNCHANGED locked

\* setBackupStatus(failed, output); the synchronous caller (lines 257-266)
\* then writes the busy message when the output has the locked signature
Fail(r, out, n) ==
    /\ status' = [status EXCEPT !["backup"] =
                    IF ~req[r].async /\ IsRepoLocked(out)
                    THEN SetStatus(SetStatus(@, "failed", TruncateStatusMessage(OutText(out)), now),
                                   "failed", BusyMsg, now)
                    ELSE SetStatus(@, "failed", TruncateStatusMessage(OutText(out)), now)]
    /\ Step(r, [pc |-> "done", invoked |-> req[r].invoked + n, out |-> out,
                first |-> IF req[r].first = "none" THEN out ELSE req[r].first,
                resp |-> IF req[r].async THEN "Accepted"
                         ELSE IF IsRepoLocked(out) THEN "RepoBusy" ELSE "BackupFailed"])
    /\ UNCHANGED <<snaps, locked, nextId>>

IsSafeToReinitRepoAny(duOk, size) == TRUE

\* isSafeToReinitRepo: du succeeded and reports at most 1 MiB
IsSafeToReinitRepo(duOk, size) == duOk /\ size <= ReinitMaxSize

\* what the first restic backup of a request met, for the record
Met(out, duOk) ==
    [first |-> out, recentAt |-> cfgRecent, duAt |-> duOk, sizeAtFail |-> RepoSize]

\* lines 829-837, 851: the first restic backup. `duOk`: du succeeded when
\* isSafeToReinitRepo asked for the size.
RunBackup(r, out, duOk) ==
    /\ req[r].pc = "backup"
    /\ ToolOut(r, out)
    /\ IF out = "ok" THEN Succeed(r)
       ELSE IF out = "lockedOld"
            THEN /\ Step(r, [pc |-> "unlock", invoked |-> req[r].invoked + 1, out |-> out]
                             @@ Met(out, duOk))
                 /\ UNCHANGED <<status, snaps, locked, nextId>>
            ELSE IF out = "mismatch" /\ cfgRecent /\ IsSafeToReinitRepo(duOk, RepoSize)
                 THEN /\ Step(r, [pc |-> "reinit", invoked |-> req[r].invoked + 1, out |-> out]
                                  @@ Met(out, duOk))
                      /\ UNCHANGED <<status, snaps, locked, nextId>>
                 ELSE Fail(r, out, 1)
    /\ UNCHANGED <<now, keyFile, repoKey, cfgRecent, poll, api, tmpVars>>

RunUnlockAlwaysRetry(r, ok) ==
    /\ req[r].pc = "unlock"
    /\ Step(r, [pc |-> "retry", unlocks |-> req[r].unlocks + 1, unlockOk |-> ok])
    /\ UNCHANGED <<now, status, keyVars, snapVars, poll, api, tmpVars>>

\* tryUnlockStaleLock, lines 820-825: restic unlock
RunUnlock(r, ok) ==
    /\ req[r].pc = "unlock"
    /\ IF ok
       THEN /\ Step(r, [pc |-> "retry", unlocks |-> req[r].unlocks + 1, unlockOk |-> TRUE])
            /\ UNCHANGED <<status, snaps, locked, nextId>>
       ELSE /\ status' = [status EXCEPT !["backup"] =
                    IF ~req[r].async
                    THEN SetStatus(SetStatus(@, "failed",
                                             TruncateStatusMessage(OutText(req[r].out)), now),
                                   "failed", BusyMsg, now)
                    ELSE SetStatus(@, "failed", TruncateStatusMessage(OutText(req[r].out)), now)]
            /\ Step(r, [pc |-> "done", unlocks |-> req[r].unlocks + 1,
                        resp |-> IF req[r].async THEN "Accepted" ELSE "RepoBusy"])
            /\ UNCHANGED <<snaps, locked, nextId>>
    /\ UNCHANGED <<now, keyFile, repoKey, cfgRecent, poll, api, tmpVars>>

\* reinitRepo, lines 995-1014: remove the repository, store the key, restic init
RunReinit(r, ok) ==
    /\ req[r].pc = "reinit"
    /\ snaps' = {}
    /\ locked' = {}
    /\ keyFile' = req[r].resolved \o <<"\n">>
    /\ IF ok
       THEN /\ repoKey' = req[r].resolved
            /\ cfgRecent' = TRUE
            /\ status' = status
            /\ Step(r, [pc |-> "retry", reinits |-> req[r].reinits + 1])
       ELSE /\ repoKey' = NoKey
            /\ cfgRecent' = FALSE
            /\ status' = [status EXCEPT !["backup"] =
                            SetStatus(@, "failed", TruncateStatusMessage(OutText(req[r].out)), now)]
            /\ Step(r, [pc |-> "done", reinits |-> req[r].reinits + 1,
                        resp |-> IF req[r].async THEN "Accepted" ELSE "BackupFailed"])
    /\ UNCHANGED <<now, nextId, poll, api, tmpVars>>

RunRetryAgain(r, out) ==
    /\ req[r].pc = "retry"
    /\ ToolOut(r, out)
    /\ IF out = "ok" THEN Succeed(r)
       ELSE IF IsRepoLocked(out)
            THEN /\ Step(r, [pc |-> "unlock", invoked |-> req[r].invoked + 1, out |-> out])
                 /\ UNCHANGED <<status, snaps, locked, nextId>>
            ELSE Fail(r, out, 1)
    /\ UNCHANGED <<now, keyFile, repoKey, cfgRecent, poll, api, tmpVars>>

\* lines 839-847, 853-861: the one retry
RunRetry(r, out) ==
    /\ req[r].pc = "retry"
    /\ ToolOut(r, out)
    /\ IF out = "ok" THEN Succeed(r) ELSE Fail(r, out, 1)
    /\ UNCHANGED <<now, keyFile, repoKey, cfgRecent, poll, api, tmpVars>>

\* ------------------------------------------------------------ status polls
\* GetServerResticBackupStatus, GetServerResticRestoreStatus
PollStatus(kind) ==
    /\ kind \in {"backup", "restore"}
    /\ LET cur == status[kind]
           ans == IF cur.status = "" THEN [ZeroStatus EXCEPT !.status = "idle"]
                  ELSE IF PollStale(cur, now) THEN Reap(cur, now, kind) ELSE cur
       IN /\ status' = IF cur.status # "" /\ PollStale(cur, now)
                       THEN [status EXCEPT ![kind] = ans] ELSE status
          /\ poll' = [poll EXCEPT ![kind] =
                        [read |-> cur, ans |-> ans, at |-> now, stored |-> status'[kind],
                         pending |-> FALSE]]
    /\ UNCHANGED <<now, keyVars, snapVars, req, api, tmpVars>>

\* the same handlers, cut between readBackupStatus (lines 881-885) and
\* writeBackupStatus (line 896), for interleavings with other writers
PollStatusRead(kind) ==
    /\ kind \in {"backup", "restore"}
    /\ ~poll[kind].pending
    /\ LET cur == status[kind]
           stale == cur.status # "" /\ PollStale(cur, now)
           ans == IF cur.status = "" THEN [ZeroStatus EXCEPT !.status = "idle"]
                  ELSE IF stale THEN Reap(cur, now, kind) ELSE cur
       IN poll' = [poll EXCEPT ![kind] =
                     [read |-> cur, ans |-> ans, at |-> now, stored |-> cur,
                      pending |-> stale]]
    /\ UNCHANGED <<now, status, keyVars, snapVars, req, api, tmpVars>>

PollStatusWrite(kind) ==
    /\ kind \in {"backup", "restore"}
    /\ poll[kind].pending
    /\ status' = [status EXCEPT ![kind] = poll[kind].ans]
    /\ poll' = [poll EXCEPT ![kind].stored = poll[kind].ans, ![kind].pending = FALSE]
    /\ UNCHANGED <<now, keyVars, snapVars, req, api, tmpVars>>

\* ------------------------------------------------------------------- time
Tick ==
    /\ now + TickHours <= MaxTime
    /\ now' = now + TickHours
    /\ cfgRecent' = FALSE
    /\ UNCHANGED <<status, keyFile, repoKey, snaps, locked, nextId, req, poll, api, tmpVars>>

\* ------------------------------------------- lock, unlock, prune endpoints
\* LockServerResticBackup: restic tag --add locked <id>
LockSnapshot(id) ==
    /\ repoKey # NoKey /\ TrimSpace(keyFile) = repoKey
    /\ id \in snaps \ locked
    /\ locked' = locked \cup {id}
    /\ api' = TRUE
    /\ UNCHANGED <<now, status, keyFile, repoKey, cfgRecent, snaps, nextId, req, poll, tmpVars>>

\* UnlockServerResticBackup: restic tag --remove locked <id>
UnlockSnapshot(id) ==
    /\ repoKey # NoKey /\ TrimSpace(keyFile) = repoKey
    /\ id \in locked
    /\ locked' = locked \ {id}
    /\ api' = TRUE
    /\ UNCHANGED <<now, status, keyFile, repoKey, cfgRecent, snaps, nextId, req, poll, tmpVars>>

\* the snapshots restic forget keeps under --keep-tag locked --keep-last n
Kept(n) == {s \in snaps : s \in locked \/ Cardinality({t \in snaps : t > s}) < n}

\* PruneServerResticBackup: restic forget --prune --keep-tag locked --keep-last n
PruneRepo(n) ==
    /\ repoKey # NoKey /\ TrimSpace(keyFile) = repoKey
    /\ n > 0
    /\ Kept(n) # snaps
    /\ snaps' = Kept(n)
    /\ api' = TRUE
    /\ UNCHANGED <<now, status, keyFile, repoKey, cfgRecent, locked, nextId, req, poll, tmpVars>>

\* ------------------------------------- POST .../backups/restic/:id/restore
\* restore.go lines 74-121: the parameters, then the guard on the status file
RestoreGuard(r, valid, async) ==
    /\ req[r].pc = "idle"
    /\ LET cur == status["restore"]
           g == GuardOutcome(cur, now)
           inp == [kind |-> "restore", async |-> async, before |-> cur, at |-> now]
       IN IF ~valid
          THEN /\ Step(r, [pc |-> "done", resp |-> "BadRequest"] @@ inp)
               /\ UNCHANGED status
          ELSE IF g = "conflict"
               THEN /\ Step(r, [pc |-> "done", resp |-> "Conflict", guardSaw |-> "fresh"] @@ inp)
                    /\ UNCHANGED status
               ELSE /\ status' = IF g = "reap"
                                 THEN [status EXCEPT !["restore"] = Reap(cur, now, "restore")]
                                 ELSE status
                    /\ Step(r, [pc |-> "rclaim",
                                guardSaw |-> IF g = "reap" THEN "stale" ELSE "pass"] @@ inp)
    /\ UNCHANGED <<now, keyVars, snapVars, poll, api, tmpVars>>

RestoreClaimShared(r) ==
    /\ req[r].pc = "rclaim"
    /\ status' = [status EXCEPT !["backup"] = SetRestoreStatus(@, "running", "", now)]
    /\ Step(r, [pc |-> "rrun", claimedAt |-> now,
                resp |-> IF req[r].async THEN "Accepted" ELSE "none"])
    /\ UNCHANGED <<now, keyVars, snapVars, poll, api, tmpVars>>

\* lines 150-151, 159, 163: setRestoreStatus(running)
RestoreClaim(r) ==
    /\ req[r].pc = "rclaim"
    /\ status' = [status EXCEPT !["restore"] = SetRestoreStatus(@, "running", "", now)]
    /\ Step(r, [pc |-> "rrun", claimedAt |-> now,
                resp |-> IF req[r].async THEN "Accepted" ELSE "none"])
    /\ UNCHANGED <<now, keyVars, snapVars, poll, api, tmpVars>>

\* context.WithTimeout(6 * time.Hour) around restic restore
RestoreDeadline == 6

\* the error of the restore closure; stderr is "diag", or a long text
RestoreMsg(res) ==
    IF res = "timeout" THEN "restore timed out"
    ELSE IF res = "failLong" THEN "restic restore failed: " \o LongDiag
    ELSE "restic restore failed: diag"

\* lines 127-148, 152-157, 164-170: restic restore under its 6 hour deadline
RestoreRun(r, res) ==
    /\ req[r].pc = "rrun"
    /\ res \in {"ok", "fail", "timeout", "failLong"}
    /\ res = "timeout" => now - req[r].claimedAt >= RestoreDeadline
    /\ res # "timeout" => now - req[r].claimedAt <= RestoreDeadline
    /\ status' = [status EXCEPT !["restore"] =
                    IF res = "ok" THEN SetRestoreStatus(@, "completed", "", now)
                    ELSE SetRestoreStatus(@, "failed", RestoreMsg(res), now)]
    /\ Step(r, [pc |-> "done", invoked |-> req[r].invoked + 1, out |-> res,
                resp |-> IF req[r].async THEN "Accepted"
                         ELSE IF res = "ok" THEN "OK" ELSE "RestoreFailed"])
    /\ UNCHANGED <<now, keyVars, snapVars, poll, api, tmpVars>>

\* ------------------------------------- POST .../backups/restic/:id/prepare
\* setDownloadStatus: the record written over `current`
SetDownloadStatus(current, st, message, t) ==
    [status |-> st,
     startedAt |-> IF current.startedAt # NoTime THEN current.startedAt
                   ELSE IF st = "running" THEN t ELSE NoTime,
     finishedAt |-> IF st \in {"ready", "failed"} THEN t ELSE NoTime,
     message |-> message]

\* prepare.go lines 22-67: the parameters; an async request writes `running`
PrepareStart(r, valid, async) ==
    /\ req[r].pc = "idle"
    /\ LET cur == status["prepare"]
           inp == [kind |-> "prepare", async |-> async, before |-> cur, at |-> now,
                   cacheAt |-> cache]
       IN IF ~valid
          THEN /\ Step(r, [pc |-> "done", resp |-> "BadRequest"] @@ inp)
               /\ UNCHANGED status
          ELSE IF async
               THEN /\ status' = [status EXCEPT !["prepare"] =
                                    SetDownloadStatus(@, "running", "", now)]
                    /\ Step(r, [pc |-> "prestore", resp |-> "Accepted"] @@ inp)
               ELSE /\ Step(r, [pc |-> "prestore"] @@ inp)
                    /\ UNCHANGED status
    /\ UNCHANGED <<now, keyVars, snapVars, poll, api, tmpVars>>

\* the error prepareServerResticBackupInternal returns in part_003
PrepareErr(out) ==
    IF out = "timeout" THEN "restore timed out"
    ELSE IF out = "failLong" THEN "restic restore failed: " \o LongDiag
    ELSE IF out = "tarfail" THEN "archive failed: diag"
    ELSE "restic restore failed: diag"

\* the message of the failed record: fixed in prepare.go, err.Error() in part_003
PrepareFailMsg(out) == IF build = "prepare.go" THEN "prepare failed" ELSE PrepareErr(out)

\* the handler's end: an async request writes ready or failed
PrepareEnd(r, ok, n, out) ==
    /\ status' = IF req[r].async
                 THEN [status EXCEPT !["prepare"] =
                         IF ok THEN SetDownloadStatus(@, "ready", "", now)
                         ELSE SetDownloadStatus(@, "failed", PrepareFailMsg(out), now)]
                 ELSE status
    /\ Step(r, [pc |-> "done", invoked |-> req[r].invoked + n, out |-> out,
                resp |-> IF req[r].async THEN "Accepted"
                         ELSE IF ok THEN "OK" ELSE "PrepareFailed"])

\* prepareServerResticBackupInternal, lines 204-218: restic restore into the
\* emptied scratch directory
PrepareRestore(r, res) ==
    /\ req[r].pc = "prestore"
    /\ res \in {"ok", "fail", "timeout", "failLong"}
    /\ IF res = "ok"
       THEN /\ scratch' = TRUE
            /\ Step(r, [pc |-> "parchive", invoked |-> req[r].invoked + 1])
            /\ UNCHANGED status
       ELSE /\ scratch' = FALSE
            /\ PrepareEnd(r, FALSE, 1, res)
    /\ UNCHANGED <<now, keyVars, snapVars, poll, api, cache, arch, build, fs, root, auxVars>>

PrepareArchiveLeaves(r, tarOk) ==
    /\ req[r].pc = "parchive"
    /\ scratch' = scratch
    /\ IF cache = "full"
       THEN /\ tarOk
            /\ cache' = cache
            /\ PrepareEnd(r, TRUE, 0, "reuse")
       ELSE /\ cache' = IF tarOk THEN "full" ELSE "empty"
            /\ PrepareEnd(r, tarOk, 1, IF tarOk THEN "ok" ELSE "tarfail")
    /\ UNCHANGED <<now, keyVars, snapVars, poll, api, arch, build, fs, root, auxVars>>

PrepareArchiveAnyFile(r, tarOk) ==
    /\ req[r].pc = "parchive"
    /\ scratch' = FALSE
    /\ IF cache # "absent"
       THEN /\ tarOk
            /\ cache' = cache
            /\ PrepareEnd(r, TRUE, 0, "reuse")
       ELSE /\ cache' = IF tarOk THEN "full" ELSE "absent"
            /\ PrepareEnd(r, tarOk, 1, IF tarOk THEN "ok" ELSE "tarfail")
    /\ UNCHANGED <<now, keyVars, snapVars, poll, api, arch, build, fs, root, auxVars>>

\* lines 226-245: reuse a non-empty archive, else tar the restored tree
PrepareArchive(r, tarOk) ==
    /\ req[r].pc = "parchive"
    /\ scratch' = FALSE
    /\ IF cache = "full"
       THEN /\ tarOk
            /\ cache' = cache
            /\ PrepareEnd(r, TRUE, 0, "reuse")
       ELSE /\ cache' = IF tarOk THEN "full" ELSE "absent"
            /\ PrepareEnd(r, tarOk, 1, IF tarOk THEN "ok" ELSE "tarfail")
    /\ UNCHANGED <<now, keyVars, snapVars, poll, api, arch, build, fs, root, auxVars>>

\* no tar has written the file at the cache path
NoWriter == 0

\* lines 204-215 of prepareServerResticBackupInternal: the scratch directory
\* is removed and restic restore is started into it
PrepareRestoreStart(r) ==
    /\ req[r].pc = "prestore"
    /\ scratch' = FALSE
    /\ Step(r, [pc |-> "prestoring"])
    /\ UNCHANGED <<now, status, keyVars, snapVars, poll, api, cache, arch, build, fs, root,
                   auxVars>>

\* lines 215-238: restic restore returns; on success the cache path is
\* examined, a file with bytes in it is taken for the archive, anything else
\* is removed and tar is started
PrepareRestoreEnd(r, res) ==
    /\ req[r].pc = "prestoring"
    /\ res \in {"ok", "fail", "timeout"}
    /\ IF res # "ok"
       THEN /\ scratch' = FALSE
            /\ PrepareEnd(r, FALSE, 1, res)
            /\ UNCHANGED <<cache, writer>>
       ELSE IF cache \in {"partial", "full"}
            THEN /\ scratch' = FALSE
                 /\ PrepareEnd(r, TRUE, 1, "reuse")
                 /\ UNCHANGED <<cache, writer>>
            ELSE /\ scratch' = TRUE
                 /\ cache' = "empty"
                 /\ writer' = r
                 /\ Step(r, [pc |-> "ptarring", invoked |-> req[r].invoked + 1])
                 /\ UNCHANGED status
    /\ UNCHANGED <<now, keyVars, snapVars, poll, api, arch, build, fs, root, cmd, lst>>

\* the running tar writes into the file it created
PrepareTarWrite(r) ==
    /\ req[r].pc = "ptarring"
    /\ writer = r /\ cache = "empty"
    /\ cache' = "partial"
    /\ UNCHANGED <<now, status, keyVars, snapVars, req, poll, api, scratch, arch, build, fs,
                   root, cmd, lst, writer>>

\* lines 238-245: tar returns; the scratch directory is removed, and so is
\* the file at the cache path when tar failed
PrepareTarEnd(r, tarOk) ==
    /\ req[r].pc = "ptarring"
    /\ scratch' = FALSE
    /\ IF tarOk
       THEN /\ cache' = IF writer = r THEN "full" ELSE cache
            /\ UNCHANGED writer
       ELSE /\ cache' = "absent"
            /\ writer' = NoWriter
    /\ PrepareEnd(r, tarOk, 1, IF tarOk THEN "ok" ELSE "tarfail")
    /\ UNCHANGED <<now, keyVars, snapVars, poll, api, arch, build, fs, root, cmd, lst>>

\* GetServerResticBackupPrepareStatus: the record as stored
PollPrepare ==
    /\ LET cur == status["prepare"]
       IN poll' = [poll EXCEPT !["prepare"] =
                     [read |-> cur, at |-> now, stored |-> cur, pending |-> FALSE,
                      ans |-> IF cur.status = "" THEN [ZeroStatus EXCEPT !.status = "idle"]
                              ELSE cur]]
    /\ UNCHANGED <<now, status, keyVars, snapVars, req, api, tmpVars>>

\* ------------------------------------------------- the status file itself
\* writeBackupStatus, writeRestoreStatus, writeDownloadStatus: the record is
\* written to <path>.tmp with os.WriteFile and renamed over <path>. A file is
\* an inode; `path` and `tmp` name one or none; a writer holds the inode it
\* opened. The content of an inode is "" (just truncated) or one whole record.
NoFile == 0

\* the serialised record writer w puts down
RecordOf(w) == IF w = 1 THEN "rec1" ELSE "rec2"

FsInit(prev) ==
    [path |-> IF prev = "" THEN NoFile ELSE 1,
     tmp |-> NoFile,
     data |-> IF prev = "" THEN <<>> ELSE <<prev>>,
     w |-> [x \in Reqs |-> [pc |-> "idle", fd |-> NoFile, n |-> 0]],
     got |-> "none"]

FsWriter(w, pc, fd, n) == [fs.w EXCEPT ![w] = [pc |-> pc, fd |-> fd, n |-> n]]

\* os.WriteFile, first half: open(tmp, O_WRONLY|O_CREATE|O_TRUNC)
WriteStatusOpen(w) ==
    /\ fs.w[w].pc = "idle"
    /\ fs.w[w].n < MaxWrites
    /\ fs' = IF fs.tmp # NoFile
             THEN [fs EXCEPT !.data[fs.tmp] = "",
                             !.w = FsWriter(w, "opened", fs.tmp, fs.w[w].n)]
             ELSE [fs EXCEPT !.data = Append(fs.data, ""),
                             !.tmp = Len(fs.data) + 1,
                             !.w = FsWriter(w, "opened", Len(fs.data) + 1, fs.w[w].n)]
    /\ UNCHANGED <<now, status, keyVars, snapVars, req, poll, api, scratch, cache, arch, build, root, auxVars>>

\* os.WriteFile, second half: write the bytes to the open file and close it
WriteStatusData(w) ==
    /\ fs.w[w].pc = "opened"
    /\ fs' = [fs EXCEPT !.data[fs.w[w].fd] = RecordOf(w),
                        !.w = FsWriter(w, "written", NoFile, fs.w[w].n)]
    /\ UNCHANGED <<now, status, keyVars, snapVars, req, poll, api, scratch, cache, arch, build, root, auxVars>>

\* os.Rename(tmp, path), its error ignored
WriteStatusRename(w) ==
    /\ fs.w[w].pc = "written"
    /\ fs' = IF fs.tmp # NoFile
             THEN [fs EXCEPT !.path = fs.tmp, !.tmp = NoFile,
                             !.w = FsWriter(w, "idle", NoFile, fs.w[w].n + 1)]
             ELSE [fs EXCEPT !.w = FsWriter(w, "idle", NoFile, fs.w[w].n + 1)]
    /\ UNCHANGED <<now, status, keyVars, snapVars, req, poll, api, scratch, cache, arch, build, root, auxVars>>

\* readBackupStatus, readRestoreStatus, readDownloadStatus: os.ReadFile(path)
ReadStatus ==
    /\ fs' = [fs EXCEPT !.got = IF fs.path = NoFile THEN "absent" ELSE fs.data[fs.path]]
    /\ UNCHANGED <<now, status, keyVars, snapVars, req, poll, api, scratch, cache, arch, build, root, auxVars>>

\* ------------------------------------------------------- resolveRepoDir
\* Names are sequences of characters. Two servers, the id of one a prefix
\* of the id of the other, and the owners a caller may name.
ServerIds == {<<"a">>, <<"a", "a">>}

OwnerNames == {<<"b">>, <<"c">>}

\* fmt.Sprintf("%s+%s", serverId, ownerUsername)
WithOwner(id, owner) == id \o <<"+">> \o owner

\* the names that may exist under /var/lib/pterodactyl/restic
RootNames == ServerIds \cup {WithOwner(id, o) : id \in ServerIds, o \in OwnerNames}

RootInit(dirs, files) ==
    [dirs |-> dirs, files |-> files, id |-> <<>>, hint |-> <<>>, res |-> <<>>,
     del |-> "none"]

\* repoExists: <repo>/config can be opened, or <repo> is a directory
RepoExists(name) == name \in root.dirs

HasPrefixLoose(name, prefix) ==
    Len(name) >= Len(prefix) - 1
    /\ SubSeq(name, 1, Len(prefix) - 1) = SubSeq(prefix, 1, Len(prefix) - 1)

\* strings.HasPrefix
HasPrefix(name, prefix) ==
    Len(name) >= Len(prefix) /\ SubSeq(name, 1, Len(prefix)) = prefix

\* byte order of the characters in use
Rank(c) == IF c = "+" THEN 1 ELSE IF c = "a" THEN 2 ELSE IF c = "b" THEN 3 ELSE 4

RECURSIVE NameLess(_, _)
NameLess(s, t) ==
    IF s = <<>> THEN t # <<>>
    ELSE IF t = <<>> THEN FALSE
    ELSE IF Head(s) = Head(t) THEN NameLess(Tail(s), Tail(t))
    ELSE Rank(Head(s)) < Rank(Head(t))

\* os.ReadDir: the entries sorted by name
RECURSIVE ReadDir(_)
ReadDir(S) ==
    IF S = {} THEN <<>>
    ELSE LET m == CHOOSE x \in S : \A y \in S \ {x} : NameLess(x, y)
         IN <<m>> \o ReadDir(S \ {m})

\* the first element of a sequence that satisfies the scan's test, or <<>>
RECURSIVE FirstMatch(_, _, _)
FirstMatch(entries, i, id) ==
    IF i > Len(entries) THEN <<>>
    ELSE IF entries[i] \in root.dirs /\ HasPrefix(entries[i], id \o <<"+">>)
         THEN entries[i]
         ELSE FirstMatch(entries, i + 1, id)

\* resolveRepoDir
ResolveRepoDirOf(id, hint) ==
    LET candidates == (IF hint # <<>> THEN <<WithOwner(id, hint)>> ELSE <<>>) \o <<id>>
        hits == SelectSeq(candidates, RepoExists)
        found == FirstMatch(ReadDir(root.dirs \cup root.files), 1, id)
    IN IF hits # <<>> THEN hits[1]
       ELSE IF found # <<>> THEN found
       ELSE IF hint # <<>> THEN WithOwner(id, hint) ELSE id

ResolveRepoDir(id, hint) ==
    /\ root' = [root EXCEPT !.id = id, !.hint = hint, !.res = ResolveRepoDirOf(id, hint)]
    /\ UNCHANGED <<now, status, keyVars, snapVars, req, poll, api, scratch, cache, arch, build, fs, auxVars>>

\* DeleteServerResticRepo (backups.go 1503-1532, repo.go 110-138): every
\* entry of the storage root named serverId or serverId+<owner> goes through
\* os.RemoveAll; `ok` is whether the first RemoveAll succeeds
DeleteServerResticRepo(id, ok) ==
    /\ LET mine == {n \in root.dirs \cup root.files :
                       n = id \/ HasPrefix(n, id \o <<"+">>)}
       IN /\ ~ok => mine # {}
          /\ root' = IF ok
                     THEN [root EXCEPT !.dirs = @ \ mine, !.files = @ \ mine,
                                       !.id = id, !.del = "deleted"]
                     ELSE [root EXCEPT !.id = id, !.del = "failed"]
    /\ UNCHANGED <<now, status, keyVars, snapVars, req, poll, api, scratch, cache, arch, build, fs, auxVars>>

\* ------------------------------------------------------ archived repos
\* Paths are sequences of segments, a segment a sequence of characters.
\* resticArchiveBaseDir = /var/lib/pterodactyl/restic/archive
ArchiveBase ==
    << <<"v", "a", "r">>, <<"l", "i", "b">>,
       <<"p", "t", "e", "r", "o", "d", "a", "c", "t", "y", "l">>,
       <<"r", "e", "s", "t", "i", "c">>, <<"a", "r", "c", "h", "i", "v", "e">> >>

ArchiveIdMaxLen == 255

\* the letters and digits that occur in the identifiers explored
Alnum == {"a", "Z", "0"}

ArchiveIdMatchesAny(id) == TRUE

\* archiveIdRe: ^[A-Za-z0-9][A-Za-z0-9._+@-]{0,254}$
ArchiveIdMatches(id) ==
    /\ Len(id) >= 1
    /\ Len(id) <= ArchiveIdMaxLen
    /\ id[1] \in Alnum
    /\ \A i \in 2..Len(id) : id[i] \in Alnum \cup {".", "_", "+", "@", "-"}

\* splitPath: the non-empty segments between separators
RECURSIVE SplitFrom(_, _, _)
SplitFrom(p, i, cur) ==
    IF i > Len(p) THEN (IF cur # <<>> THEN <<cur>> ELSE <<>>)
    ELSE IF p[i] = "/"
         THEN (IF cur # <<>> THEN <<cur>> ELSE <<>>) \o SplitFrom(p, i + 1, <<>>)
         ELSE SplitFrom(p, i + 1, Append(cur, p[i]))

SplitPath(p) == SplitFrom(p, 1, <<>>)

DotDot == <<".", ".">>

\* filepath.Clean on a rooted path: "." dropped, ".." removes the segment
\* before it and is dropped at the root
RECURSIVE CleanFrom(_, _, _)
CleanFrom(segs, i, acc) ==
    IF i > Len(segs) THEN acc
    ELSE IF segs[i] = <<".">> THEN CleanFrom(segs, i + 1, acc)
    ELSE IF segs[i] = DotDot
         THEN CleanFrom(segs, i + 1, IF acc = <<>> THEN acc ELSE SubSeq(acc, 1, Len(acc) - 1))
         ELSE CleanFrom(segs, i + 1, Append(acc, segs[i]))

\* filepath.Clean(filepath.Join(base, id))
JoinClean(base, id) == CleanFrom(base \o SplitPath(id), 1, <<>>)

RECURSIVE CommonLen(_, _, _)
CommonLen(a, b, n) ==
    IF n < Len(a) /\ n < Len(b) /\ a[n + 1] = b[n + 1] THEN CommonLen(a, b, n + 1) ELSE n

\* filepath.Rel(base, target) of two clean rooted paths
Rel(base, target) ==
    LET c == CommonLen(base, target, 0)
        up == [i \in 1..(Len(base) - c) |-> DotDot]
        rel == up \o SubSeq(target, c + 1, Len(target))
    IN IF rel = <<>> THEN << <<".">> >> ELSE rel

\* stringsHasDotDot
HasDotDot(rel) == \E i \in 1..Len(rel) : rel[i] = DotDot

\* safeArchivePath
SafeArchivePath(id) ==
    LET target == JoinClean(ArchiveBase, id)
        rel == Rel(ArchiveBase, target)
    IN IF ~ArchiveIdMatches(id) THEN [ok |-> FALSE, target |-> <<>>]
       ELSE IF rel = << <<".">> >> \/ rel = <<>> \/ rel = <<DotDot>> \/ HasDotDot(rel)
            THEN [ok |-> FALSE, target |-> <<>>]
            ELSE [ok |-> TRUE, target |-> target]

\* the identifiers a caller may send: every string of at most MaxIdLen characters
IdChars == {"a", ".", "/", "-"}

ArchiveIds == UNION {[1..n -> IdChars] : n \in 0..MaxIdLen}

ArchInit ==
    [dirs |-> {ArchiveBase \o << <<"a">> >>, ArchiveBase \o << <<"a", ".", "a">> >>},
     handler |-> "none", id |-> <<>>, resp |-> "none", target |-> <<>>, ops |-> {}]

\* DeleteArchivedRepo
DeleteArchivedRepo(id) ==
    /\ LET p == SafeArchivePath(id)
           inp == [handler |-> "delete", id |-> id, target |-> p.target]
       IN arch' = IF ~p.ok
                  THEN [resp |-> "InvalidId", ops |-> {}] @@ inp @@ arch
                  ELSE IF p.target \notin arch.dirs
                       THEN [resp |-> "NotFound", ops |-> {<<"stat", p.target>>}] @@ inp @@ arch
                       ELSE [resp |-> "OK", dirs |-> arch.dirs \ {p.target},
                             ops |-> {<<"stat", p.target>>, <<"remove", p.target>>}]
                            @@ inp @@ arch
    /\ UNCHANGED <<now, status, keyVars, snapVars, req, poll, api, scratch, cache, build, fs, root, auxVars>>

\* DownloadArchivedRepo
DownloadArchivedRepo(id) ==
    /\ LET p == SafeArchivePath(id)
           inp == [handler |-> "download", id |-> id, target |-> p.target]
       IN arch' = IF ~p.ok
                  THEN [resp |-> "InvalidId", ops |-> {}] @@ inp @@ arch
                  ELSE IF p.target \notin arch.dirs
                       THEN [resp |-> "NotFound", ops |-> {<<"stat", p.target>>}] @@ inp @@ arch
                       ELSE [resp |-> "OK",
                             ops |-> {<<"stat", p.target>>, <<"read", p.target>>}]
                            @@ inp @@ arch
    /\ UNCHANGED <<now, status, keyVars, snapVars, req, poll, api, scratch, cache, build, fs, root, auxVars>>

\* ------------------------------------------------------------------ specs
\* resolveResticKey as a function of the key file and the supplied key
ResolveResticKey(file, provided) ==
    IF TrimSpace(file) # NoKey THEN TrimSpace(file) ELSE provided

\* the "time" strings a snapshot may carry: two that parse and one that
\* does not
TimeStrs == {"t1", "t2", "bad"}

\* time.Time{}
ZeroTime == 0

\* parseSnapshotTime, and the parse of the cursor: the zero time for what is
\* not RFC 3339
ParseSnapshotTime(str) == IF str = "t1" THEN 1 ELSE IF str = "t2" THEN 2 ELSE ZeroTime

\* every snapshot created at "t1", none with a tag besides "locked"
TimesInit == [times |-> [s \in 1..MaxSnaps |-> "t1"], other |-> {}]

\* no listing request yet
LstInit ==
    TimesInit @@
    [pc |-> "idle", resp |-> "none", limitRaw |-> 0, since |-> NoTime, until |-> NoTime,
     cursor |-> "", mode |-> "inline", listed |-> {}, page |-> <<>>, next |-> "",
     limit |-> 0, total |-> 0, seen |-> <<>>, pages |-> 0]

\* the tags restic reports for a snapshot
TagsOf(s) == (IF s \in locked THEN {"locked"} ELSE {}) \cup (IF s \in lst.other THEN {"x"} ELSE {})

\* the snapshot's object in the listing has a "tags" key
HasTagsField(s, mode) == mode = "inline" /\ TagsOf(s) # {}

\* lines 400-408: the limit query parameter
LimitOf(rawLimit) ==
    IF rawLimit > 0 THEN Min(rawLimit, ListLimitCap) ELSE ListLimitDefault

\* lines 481-509: locked flag and returned tags of one snapshot
ItemOf(s, mode, sawTags, lockedIDs) ==
    LET isLocked == IF sawTags THEN HasTagsField(s, mode) /\ "locked" \in TagsOf(s)
                    ELSE s \in lockedIDs
    IN [id |-> s, locked |-> isLocked, time |-> lst.times[s],
        tags |-> IF isLocked
                 THEN (IF HasTagsField(s, mode) THEN TagsOf(s) ELSE {}) \cup {"locked"}
                 ELSE IF HasTagsField(s, mode) THEN TagsOf(s) ELSE {}]

SnapTime(s) == ParseSnapshotTime(lst.times[s])

\* lines 513-515: sort.Slice with Time.After on restic's output (oldest id
\* first); the insertion sort it runs on short slices keeps ties in place
RECURSIVE SortItems(_)
SortItems(S) ==
    IF S = {} THEN <<>>
    ELSE LET x == CHOOSE x \in S : \A y \in S \ {x} :
                     SnapTime(x) > SnapTime(y) \/ (SnapTime(x) = SnapTime(y) /\ x < y)
         IN <<x>> \o SortItems(S \ {x})

\* lines 519-526: the since/until filter
PassesRange(s, since, until) ==
    /\ ~(since # NoTime /\ SnapTime(s) # ZeroTime /\ SnapTime(s) < since)
    /\ ~(until # NoTime /\ SnapTime(s) # ZeroTime /\ SnapTime(s) > until)

\* lines 455-468, 528-530: what the cursor leaves out
CursorSkips(s, cursor) ==
    /\ ParseSnapshotTime(cursor) # ZeroTime
    /\ SnapTime(s) # ZeroTime
    /\ SnapTime(s) >= ParseSnapshotTime(cursor)

\* lines 410-556: the answer, once the locked ids are known
ListAnswer(l, sawTags, lockedIDs) ==
    LET limit == LimitOf(l.limitRaw)
        filteredAll == {s \in l.listed : PassesRange(s, l.since, l.until)}
        filtered == SortItems({s \in filteredAll : ~CursorSkips(s, l.cursor)})
        n == Min(limit, Len(filtered))
        page == [i \in 1..n |-> ItemOf(filtered[i], l.mode, sawTags, lockedIDs)]
    IN Merge(l, [pc |-> "done", resp |-> "ok", page |-> page, limit |-> limit,
                 total |-> Cardinality(filteredAll),
                 next |-> IF Len(filtered) > limit THEN page[n].time ELSE "",
                 seen |-> l.seen \o [i \in 1..n |-> page[i].id],
                 pages |-> l.pages + 1])

\* lines 271-397: ListServerResticBackups from the request to the end of
\* restic snapshots --json; answers at once unless the fallback query is due
ListQuery(l, key, mode, initOk) ==
    IF key = NoKey
    THEN /\ lst' = Merge(l, [pc |-> "done", resp |-> "BadRequest"])
         /\ UNCHANGED keyVars
    ELSE /\ keyFile' = IF TrimSpace(keyFile) # NoKey THEN keyFile ELSE key \o <<"\n">>
         /\ IF mode = "fail"
            THEN IF repoKey = NoKey
                 THEN /\ repoKey' = IF initOk THEN ResolveResticKey(keyFile, key) ELSE NoKey
                      /\ cfgRecent' = initOk
                      /\ lst' = Merge(l, [pc |-> "done",
                                          resp |-> IF initOk THEN "ok" ELSE "error"])
                 ELSE /\ lst' = Merge(l, [pc |-> "done", resp |-> "error"])
                      /\ UNCHANGED <<repoKey, cfgRecent>>
            ELSE /\ LET sawTags == \E s \in snaps : HasTagsField(s, mode)
                        m == Merge(l, [mode |-> mode, listed |-> snaps])
                    IN lst' = IF sawTags THEN ListAnswer(m, TRUE, {})
                              ELSE Merge(m, [pc |-> "fallback"])
                 /\ UNCHANGED <<repoKey, cfgRecent>>

\* a listing request for the first page
ListFirst(key, limitRaw, since, until, mode, initOk) ==
    /\ lst.pc = "idle"
    /\ ListQuery(Merge(lst, [limitRaw |-> limitRaw, since |-> since, until |-> until,
                             cursor |-> "", page |-> <<>>, next |-> "", seen |-> <<>>,
                             pages |-> 0, total |-> 0, limit |-> 0]),
                 key, mode, initOk)
    /\ UNCHANGED <<now, status, snapVars, req, poll, api, scratch, cache, arch, build, fs,
                   root, cmd, writer>>

\* the next listing request of a client that follows next_cursor
ListFollow(key, mode) ==
    /\ lst.pc = "done" /\ lst.resp = "ok" /\ lst.next # ""
    /\ lst.pages < MaxPages
    /\ ListQuery(Merge(lst, [cursor |-> lst.next, page |-> <<>>, next |-> ""]),
                 key, mode, FALSE)
    /\ UNCHANGED <<now, status, snapVars, req, poll, api, scratch, cache, arch, build, fs,
                   root, cmd, writer>>

\* lines 378-396: restic snapshots --json --tag locked, its failure ignored
ListLockedQuery(ok) ==
    /\ lst.pc = "fallback"
    /\ lst' = ListAnswer(lst, FALSE, IF ok THEN locked ELSE {})
    /\ UNCHANGED <<now, status, keyVars, snapVars, req, poll, api, scratch, cache, arch,
                   build, fs, root, cmd, writer>>

\* the secret-key variable of the tool
EnvName == <<"RESTIC_PASSWORD">>

\* one "NAME=value" string of an environment, as its pieces
Entry(name, val) == name \o <<"=">> \o val

\* the text before "=" of an entry whose value is one piece
NameOf(e) == SubSeq(e, 1, Len(e) - 2)

\* what the daemon may have been started with
DaemonEntries == {Entry(<<"PATH">>, <<"p">>), Entry(EnvName, K1), Entry(EnvName, K2),
                  Entry(EnvName \o <<"_FILE">>, <<"f">>)}

\* os.Environ(): no name twice
Environs ==
    {e \in UNION {[1..n -> DaemonEntries] : n \in 0..MaxEnv} :
        \A i, j \in 1..Len(e) : NameOf(e[i]) = NameOf(e[j]) => i = j}

CmdInit(environ) ==
    [environ |-> environ, op |-> "none", supplied |-> NoKey, resolved |-> NoKey,
     env |-> <<>>]

\* the loop of buildResticEnv: drop what starts with RESTIC_PASSWORD
NotPassword(v) == ~HasPrefix(v, EnvName)

\* buildResticEnv
BuildResticEnv(base, encryptionKey) ==
    Append(SelectSeq(base, NotPassword), Entry(EnvName, encryptionKey))

\* the operations whose handlers take their Env from buildResticEnv
BuiltOps == {"backup", "list", "stats", "tag", "prune"}

\* the operations whose handlers append to os.Environ()
AppendedOps == {"restore", "prepare"}

\* CreateServerResticBackup, ListServerResticBackups, GetServerResticStats and
\* resticRepoFromRequest (lock, unlock, prune) up to the first tool command:
\* the key is resolved, persisted when none is stored, and handed to
\* buildResticEnv
CommandBuilt(op, supplied) ==
    /\ op \in BuiltOps
    /\ LET resolved == ResolveResticKey(keyFile, supplied)
       IN /\ resolved # NoKey
          /\ keyFile' = IF TrimSpace(keyFile) # NoKey THEN keyFile ELSE supplied \o <<"\n">>
          /\ cmd' = [cmd EXCEPT !.op = op, !.supplied = supplied, !.resolved = resolved,
                                !.env = BuildResticEnv(cmd.environ, resolved)]
    /\ UNCHANGED <<now, status, repoKey, cfgRecent, snapVars, req, poll, api, scratch, cache,
                   arch, build, fs, root, lst, writer>>

\* the restore and prepare handlers up to their tool command: the key of the
\* request is appended to the daemon's environment
CommandAppended(op, supplied) ==
    /\ op \in AppendedOps
    /\ supplied # NoKey
    /\ cmd' = [cmd EXCEPT !.op = op, !.supplied = supplied,
                          !.resolved = ResolveResticKey(keyFile, supplied),
                          !.env = Append(cmd.environ, Entry(EnvName, supplied))]
    /\ UNCHANGED <<now, status, keyVars, snapVars, req, poll, api, scratch, cache,
                   arch, build, fs, root, lst, writer>>

PollInit == [k \in Kinds |-> [read |-> ZeroStatus, ans |-> ZeroStatus, at |-> NoTime,
                              stored |-> ZeroStatus, pending |-> FALSE]]

RunningAt0 == [status |-> "running", startedAt |-> 0, finishedAt |-> NoTime, message |-> ""]

KeyLine(k) == k \o <<"\n">>

Rest ==
    /\ now = 0
    /\ req = [r \in Reqs |-> ReqInit]
    /\ poll = PollInit
    /\ api = FALSE
    /\ scratch = FALSE
    /\ cache = "absent"
    /\ arch = ArchInit
    /\ build = "prepare.go"
    /\ fs = FsInit("prev")
    /\ root = RootInit({}, {})
    /\ cmd = CmdInit(<<>>)
    /\ lst = LstInit
    /\ writer = NoWriter

\* no repository yet
NoRepo ==
    /\ snaps = {} /\ locked = {} /\ nextId = 1
    /\ keyFile = <<>> /\ repoKey = NoKey /\ cfgRecent = FALSE

\* a repository of n snapshots with its key file
RepoOf(n) ==
    /\ snaps = 1..n /\ nextId = n + 1
    /\ keyFile = KeyLine(K1) /\ repoKey = K1 /\ cfgRecent = FALSE

\* a repository initialised without a key file (by hand, or by a version of
\* the handler that kept none), just now or long ago
BareRepo ==
    /\ snaps \in {{}, {1}} /\ locked = {} /\ nextId = Cardinality(snaps) + 1
    /\ keyFile = <<>> /\ repoKey = K1 /\ cfgRecent \in BOOLEAN

\* the key file holds one key and the config was made with another: what
\* two requests leave that race through resolveResticKey (reachable in SpecKey)
DriftRepo ==
    /\ snaps \in {{}, {1}, {1, 2}} /\ locked = {} /\ nextId = Cardinality(snaps) + 1
    /\ keyFile = KeyLine(K2) /\ repoKey = K1 /\ cfgRecent \in BOOLEAN

Create(r, keys, maxes, bytes) ==
    \/ \E key \in keys, m \in maxes, b \in bytes, a \in BOOLEAN : CreateGuard(r, key, m, b, a)
    \/ CreateKeyRead(r)
    \/ CreateKeyWrite(r)
    \/ \E ok \in BOOLEAN : CreateInit(r, ok)
    \/ \E ok \in BOOLEAN : CreateSizeCheck(r, ok)
    \/ \E mode \in {"fail", "inline", "omitted"} : CreateList(r, mode)
    \/ \E ok \in BOOLEAN : CreateLockedQuery(r, ok)
    \/ \E res \in {"ok", "locked", "fail"} : CreateForget(r, res)
    \/ CreateClaim(r)
    \/ \E out \in FailOuts \cup {"ok"}, ok \in BOOLEAN : RunBackup(r, out, ok)
    \/ \E ok \in BOOLEAN : RunUnlock(r, ok)
    \/ \E ok \in BOOLEAN : RunReinit(r, ok)
    \/ \E out \in FailOuts \cup {"ok"} : RunRetry(r, out)

Restore(r) ==
    \/ \E valid \in BOOLEAN, a \in BOOLEAN : RestoreGuard(r, valid, a)
    \/ RestoreClaim(r)
    \/ \E res \in {"ok", "fail", "timeout"} : RestoreRun(r, res)

Prepare(r) ==
    \/ \E valid \in BOOLEAN, a \in BOOLEAN : PrepareStart(r, valid, a)
    \/ \E res \in {"ok", "fail", "timeout"} : PrepareRestore(r, res)
    \/ \E ok \in BOOLEAN : PrepareArchive(r, ok)

\* Spec: concurrent requests of the three kinds on one server
Init ==
    /\ Rest
    /\ status = [k \in Kinds |-> ZeroStatus]
    /\ \/ NoRepo
       \/ RepoOf(2) /\ locked = {}

\* the create-backup steps a request without ceilings goes through
Backup(r) ==
    \/ \E a \in BOOLEAN : CreateGuard(r, K1, 0, 0, a)
    \/ CreateKeyRead(r)
    \/ CreateKeyWrite(r)
    \/ \E ok \in BOOLEAN : CreateInit(r, ok)
    \/ CreateClaim(r)
    \/ \E out \in {"ok", "other", "lockedOld"} : RunBackup(r, out, TRUE)
    \/ \E ok \in BOOLEAN : RunUnlock(r, ok)
    \/ \E out \in {"ok", "other"} : RunRetry(r, out)

Next ==
    \/ \E r \in Reqs : Backup(r)
    \/ \E r \in Reqs : Restore(r)
    \/ \E r \in Reqs : Prepare(r)
    \/ Tick

Spec == Init /\ [][Next]_vars

\* SpecStale: one request of any kind, the clock and the status polls, on
\* status files that may hold the `running` record of a job that died
InitStale ==
    /\ Rest
    /\ status \in [Kinds -> {ZeroStatus, RunningAt0}]
    /\ NoRepo

NextStale ==
    \/ Backup(1)
    \/ \E a \in BOOLEAN : CreateGuard(1, NoKey, 0, 0, a)
    \/ Restore(1)
    \/ Prepare(1)
    \/ \E k \in {"backup", "restore"} : PollStatus(k)
    \/ PollPrepare
    \/ Tick

SpecStale == InitStale /\ [][NextStale]_vars

\* SpecKey: concurrent calls of resolveResticKey, as the head of the
\* create-backup handler makes them, on a location without a key file
KPad == <<"a", " ">>

InitKey ==
    /\ Rest
    /\ status = [k \in Kinds |-> ZeroStatus]
    /\ NoRepo

NextKey ==
    \/ \E r \in Reqs, key \in {K1, K2, KPad}, a \in BOOLEAN : CreateGuard(r, key, 0, 0, a)
    \/ \E r \in Reqs : CreateKeyRead(r)
    \/ \E r \in Reqs : CreateKeyWrite(r)
    \/ \E r \in Reqs, ok \in BOOLEAN : CreateInit(r, ok)

SpecKey == InitKey /\ [][NextKey]_vars

\* SpecMessages: one request of any kind, with tool diagnostics of every
\* length, either prepare handler, the clock and the status polls
PrepareBuilds == {"prepare.go", "part_003"}

InitMessages ==
    /\ now = 0
    /\ req = [r \in Reqs |-> ReqInit]
    /\ poll = PollInit
    /\ api = FALSE
    /\ scratch = FALSE
    /\ cache = "absent"
    /\ arch = ArchInit
    /\ build \in PrepareBuilds
    /\ fs = FsInit("prev")
    /\ root = RootInit({}, {})
    /\ cmd = CmdInit(<<>>)
    /\ lst = LstInit
    /\ writer = NoWriter
    /\ status = [k \in Kinds |-> ZeroStatus]
    /\ NoRepo

NextMessages ==
    \/ \E a \in BOOLEAN : CreateGuard(1, K1, 0, 0, a)
    \/ CreateKeyRead(1)
    \/ CreateKeyWrite(1)
    \/ \E ok \in BOOLEAN : CreateInit(1, ok)
    \/ CreateClaim(1)
    \/ \E out \in {"ok", "other", "lockedOld"} \cup QuietOuts : RunBackup(1, out, TRUE)
    \/ \E ok \in BOOLEAN : RunUnlock(1, ok)
    \/ \E out \in {"ok", "other"} \cup QuietOuts : RunRetry(1, out)
    \/ \E valid \in BOOLEAN, a \in BOOLEAN : RestoreGuard(1, valid, a)
    \/ RestoreClaim(1)
    \/ \E res \in {"ok", "fail", "timeout", "failLong"} : RestoreRun(1, res)
    \/ \E valid \in BOOLEAN, a \in BOOLEAN : PrepareStart(1, valid, a)
    \/ \E res \in {"ok", "fail", "timeout", "failLong"} : PrepareRestore(1, res)
    \/ \E ok \in BOOLEAN : PrepareArchive(1, ok)
    \/ \E k \in {"backup", "restore"} : PollStatus(k)
    \/ PollPrepare
    \/ Tick

SpecMessages == InitMessages /\ [][NextMessages]_vars

\* SpecWrite: concurrent writers and readers of one status file that holds a
\* record, or does not exist yet
InitWrite ==
    /\ now = 0
    /\ req = [r \in Reqs |-> ReqInit]
    /\ poll = PollInit
    /\ api = FALSE
    /\ scratch = FALSE
    /\ cache = "absent"
    /\ arch = ArchInit
    /\ build = "prepare.go"
    /\ fs \in {FsInit("prev"), FsInit("")}
    /\ root = RootInit({}, {})
    /\ cmd = CmdInit(<<>>)
    /\ lst = LstInit
    /\ writer = NoWriter
    /\ status = [k \in Kinds |-> ZeroStatus]
    /\ NoRepo

NextWrite ==
    \/ \E w \in Reqs : WriteStatusOpen(w)
    \/ \E w \in Reqs : WriteStatusData(w)
    \/ \E w \in Reqs : WriteStatusRename(w)
    \/ ReadStatus

SpecWrite == InitWrite /\ [][NextWrite]_vars

\* SpecPoll: one backup or restore request and the status polls, each poll
\* cut between its read and its write, on status files that may hold the
\* `running` record of a job that died
NextPoll ==
    \/ Backup(1)
    \/ Restore(1)
    \/ \E k \in {"backup", "restore"} : PollStatusRead(k)
    \/ \E k \in {"backup", "restore"} : PollStatusWrite(k)
    \/ Tick

SpecPoll == InitStale /\ [][NextPoll]_vars

\* SpecDeadline: one request of any kind and the clock. The handler's own
\* steps are taken sooner or later, and so is the end of each subprocess that
\* runs under a context deadline (restic restore, and the restore and tar of
\* prepare); restic backup, unlock and init run under exec.Command without
\* one and may never end.
NextDeadline ==
    \/ Backup(1)
    \/ Restore(1)
    \/ Prepare(1)
    \/ Tick

FairDeadline ==
    /\ WF_vars(CreateKeyRead(1))
    /\ WF_vars(CreateKeyWrite(1))
    /\ WF_vars(CreateClaim(1))
    /\ WF_vars(RestoreClaim(1))
    /\ WF_vars(\E res \in {"ok", "fail", "timeout"} : RestoreRun(1, res))
    /\ WF_vars(\E res \in {"ok", "fail", "timeout"} : PrepareRestore(1, res))
    /\ WF_vars(\E ok \in BOOLEAN : PrepareArchive(1, ok))

SpecDeadline == InitKey /\ [][NextDeadline]_vars /\ FairDeadline

\* SpecResolve: resolveRepoDir for either server and any owner hint, on
\* every storage root whose entries are directories or plain files
InitResolve ==
    /\ now = 0
    /\ req = [r \in Reqs |-> ReqInit]
    /\ poll = PollInit
    /\ api = FALSE
    /\ scratch = FALSE
    /\ cache = "absent"
    /\ arch = ArchInit
    /\ build = "prepare.go"
    /\ fs = FsInit("prev")
    /\ \E dirs \in SUBSET RootNames : \E files \in SUBSET (RootNames \ dirs) :
          root = RootInit(dirs, files)
    /\ cmd = CmdInit(<<>>)
    /\ lst = LstInit
    /\ writer = NoWriter
    /\ status = [k \in Kinds |-> ZeroStatus]
    /\ NoRepo

NextResolve ==
    \E id \in ServerIds, hint \in OwnerNames \cup {<<>>} : ResolveRepoDir(id, hint)

SpecResolve == InitResolve /\ [][NextResolve]_vars

\* SpecEnv: the Env of the tool command of every operation, for every
\* environment the daemon may run in and every stored and supplied key
InitEnv ==
    /\ now = 0
    /\ req = [r \in Reqs |-> ReqInit]
    /\ poll = PollInit
    /\ api = FALSE
    /\ scratch = FALSE
    /\ cache = "absent"
    /\ arch = ArchInit
    /\ build = "prepare.go"
    /\ fs = FsInit("prev")
    /\ root = RootInit({}, {})
    /\ cmd \in {CmdInit(e) : e \in Environs}
    /\ lst = LstInit
    /\ writer = NoWriter
    /\ status = [k \in Kinds |-> ZeroStatus]
    /\ snaps = {} /\ locked = {} /\ nextId = 1 /\ cfgRecent = FALSE
    /\ \E k \in {NoKey, K1, K2} :
          /\ keyFile = IF k = NoKey THEN <<>> ELSE KeyLine(k)
          /\ repoKey = k

NextEnv ==
    \/ \E op \in BuiltOps, k \in {NoKey, K1, K2} : CommandBuilt(op, k)
    \/ \E op \in AppendedOps, k \in {K1, K2} : CommandAppended(op, k)

SpecEnv == InitEnv /\ [][NextEnv]_vars

\* SpecList: the listing endpoint, page after page, on repositories of up
\* to MaxSnaps snapshots with any times and tags
LimitsIn == {0, 1, 2, ListLimitCap + 1}

InitList ==
    /\ now = 0
    /\ req = [r \in Reqs |-> ReqInit]
    /\ poll = PollInit
    /\ api = FALSE
    /\ scratch = FALSE
    /\ cache = "absent"
    /\ arch = ArchInit
    /\ build = "prepare.go"
    /\ fs = FsInit("prev")
    /\ root = RootInit({}, {})
    /\ cmd = CmdInit(<<>>)
    /\ writer = NoWriter
    /\ status = [k \in Kinds |-> ZeroStatus]
    /\ \E n \in 0..MaxSnaps :
          /\ snaps = 1..n /\ nextId = n + 1
          /\ locked \in SUBSET snaps
          /\ \E t \in [1..MaxSnaps -> TimeStrs], o \in SUBSET (snaps \cap {1}) :
                /\ \A s \in (1..MaxSnaps) \ snaps : t[s] = "t1"
                /\ lst = Merge(LstInit, [times |-> t, other |-> o])
          /\ IF n = 0 THEN keyFile = <<>> /\ repoKey = NoKey
             ELSE keyFile = KeyLine(K1) /\ repoKey = K1
    /\ cfgRecent = FALSE

NextList ==
    \/ \E key \in {NoKey, K1}, limitRaw \in LimitsIn, since \in {NoTime, 2},
          until \in {NoTime, 1}, mode \in {"inline", "omitted", "fail"}, initOk \in BOOLEAN :
          ListFirst(key, limitRaw, since, until, mode, initOk)
    \/ \E mode \in {"inline", "omitted"} : ListFollow(K1, mode)
    \/ \E ok \in BOOLEAN : ListLockedQuery(ok)

SpecList == InitList /\ [][NextList]_vars

\* SpecRace: two create-backup requests with count ceilings whose handlers
\* overlap (neither enters its guard after the other has returned), on a
\* repository whose tool calls succeed or fail without side effects
RaceCreate(r) ==
    \/ \E m \in 1..MaxSnaps, a \in BOOLEAN :
          /\ \A q \in Others(r) : req[q].pc # "done"
          /\ CreateGuard(r, K1, m, 0, a)
    \/ CreateKeyRead(r)
    \/ \E ok \in BOOLEAN : CreateInit(r, ok)
    \/ CreateList(r, "inline")
    \/ CreateLockedQuery(r, TRUE)
    \/ \E res \in {"ok", "fail"} : CreateForget(r, res)
    \/ CreateClaim(r)
    \/ \E out \in {"ok", "other"} : RunBackup(r, out, TRUE)

InitRace ==
    /\ Rest
    /\ status = [k \in Kinds |-> ZeroStatus]
    /\ \E n \in 1..MaxSnaps : RepoOf(n) /\ locked \in SUBSET snaps

NextRace == \E r \in Reqs : RaceCreate(r)

SpecRace == InitRace /\ [][NextRace]_vars

\* SpecCache: one prepare request after another on a cache file that is
\* absent, zero bytes long (left by a writer that died) or a whole archive
InitCache ==
    /\ now = 0
    /\ req = [r \in Reqs |-> ReqInit]
    /\ poll = PollInit
    /\ api = FALSE
    /\ scratch \in BOOLEAN
    /\ cache \in {"absent", "empty", "full"}
    /\ arch = ArchInit
    /\ build = "prepare.go"
    /\ fs = FsInit("prev")
    /\ root = RootInit({}, {})
    /\ cmd = CmdInit(<<>>)
    /\ lst = LstInit
    /\ writer = NoWriter
    /\ status = [k \in Kinds |-> ZeroStatus]
    /\ NoRepo

NextCache ==
    \/ \E r \in Reqs : Others(r) = {q \in Others(r) : req[q].pc \in {"idle", "done"}}
                        /\ Prepare(r)
    \/ PollPrepare
    \/ Tick

SpecCache == InitCache /\ [][NextCache]_vars

\* SpecShare: two prepare requests for the same server and snapshot, their
\* restic and tar processes running at the same time
PrepareSteps(r) ==
    \/ \E valid \in BOOLEAN, a \in BOOLEAN : PrepareStart(r, valid, a)
    \/ PrepareRestoreStart(r)
    \/ \E res \in {"ok", "fail", "timeout"} : PrepareRestoreEnd(r, res)
    \/ PrepareTarWrite(r)
    \/ \E ok \in BOOLEAN : PrepareTarEnd(r, ok)

NextShare ==
    \/ \E r \in Reqs : PrepareSteps(r)
    \/ PollPrepare

SpecShare == InitCache /\ [][NextShare]_vars

\* SpecDelete: the delete-repository endpoint for either server, on every
\* storage root
NextDelete ==
    \E id \in ServerIds, ok \in BOOLEAN : DeleteServerResticRepo(id, ok)

SpecDelete == InitResolve /\ [][NextDelete]_vars

\* SpecArchive: delete and download requests on archived repositories
InitArchive ==
    /\ Rest
    /\ status = [k \in Kinds |-> ZeroStatus]
    /\ NoRepo

NextArchive ==
    \/ \E id \in ArchiveIds : DeleteArchivedRepo(id)
    \/ \E id \in ArchiveIds : DownloadArchivedRepo(id)

SpecArchive == InitArchive /\ [][NextArchive]_vars

\* SpecRetention: one create-backup request on every small repository, with
\* the lock, unlock and prune endpoints
MaxBackupsIn == 0..MaxSnaps

InitRetention ==
    /\ Rest
    /\ status = [k \in Kinds |-> ZeroStatus]
    /\ \/ NoRepo
       \/ BareRepo
       \/ DriftRepo
       \/ \E n \in 0..MaxSnaps : RepoOf(n) /\ locked \in SUBSET snaps

NextRetention ==
    \/ Create(1, {NoKey, K1, K2}, MaxBackupsIn, {0, 2})
    \/ \E id \in 1..MaxSnaps : LockSnapshot(id)
    \/ \E id \in 1..MaxSnaps : UnlockSnapshot(id)
    \/ \E n \in 1..2 : PruneRepo(n)

SpecRetention == InitRetention /\ [][NextRetention]_vars

\* ----------------------------------------------------------------- claims
\* C1: for each kind (backup, restore, prepare), a well-formed request that
\* arrives while the stored record of its kind is `running` and at most 6 hours
\* old is answered with Conflict and starts neither the tool nor a background
\* task.
C1_FreshRunningIsConflict ==
    \A r \in Reqs :
        (/\ req[r].kind \in Kinds
         /\ req[r].resp # "BadRequest"
         /\ req[r].before.status = "running"
         /\ req[r].before.startedAt # NoTime
         /\ req[r].at - req[r].before.startedAt <= StaleHours)
        => (req[r].pc = "done" /\ req[r].resp = "Conflict" /\ req[r].invoked = 0)

\* C2, as stated: of two concurrent create-backup requests exactly one is
\* accepted, so two backup invocations are never in flight together.
C2_ExactlyOneAccepted ==
    \A r1, r2 \in Reqs :
        (/\ r1 # r2
         /\ req[r1].kind = "backup" /\ req[r2].kind = "backup"
         /\ req[r1].guardSaw # "stale" /\ req[r2].guardSaw # "stale")
        => ~(req[r1].pc = "backup" /\ req[r2].pc = "backup")

\* C2, amended: a create-backup request whose guard reads a `running` record
\* at most 6 hours old is answered with Conflict and invokes nothing; it gets
\* Conflict only when another create-backup request had written `running`
\* before that read; and when a request that was accepted finishes
\* successfully while no other request was accepted, the status reads
\* `completed`.
C2_ConflictAfterRunningWrite ==
    \A r \in Reqs :
        req[r].kind = "backup" =>
            /\ (/\ req[r].before.status = "running"
                /\ req[r].before.startedAt # NoTime
                /\ req[r].at - req[r].before.startedAt <= StaleHours)
               => (req[r].pc = "done" /\ req[r].resp = "Conflict" /\ req[r].invoked = 0)
            /\ req[r].resp = "Conflict"
               => \E o \in Others(r) :
                      /\ req[o].kind = "backup"
                      /\ req[o].claimedAt # NoTime
                      /\ req[o].claimedAt <= req[r].at
            /\ (/\ req[r].pc = "done" /\ req[r].out = "ok"
                /\ \A o \in Others(r) : req[o].claimedAt = NoTime \/ req[o].kind # "backup")
               => status["backup"].status = "completed"

C2_Witness ==
    \E r1, r2 \in Reqs :
        /\ r1 # r2
        /\ req[r1].kind = "backup" /\ req[r2].kind = "backup"
        /\ req[r1].pc = "done" /\ req[r1].out = "ok"
        /\ req[r2].pc = "done" /\ req[r2].resp = "Conflict"
        /\ req[r2].at >= req[r1].claimedAt
        /\ status["backup"].status = "completed"

\* C3: for backup and restore, a status read of a `running` record started
\* more than 6 hours ago answers `failed` and stores that answer; a request
\* of that kind whose guard reads such a record, or the record the read left,
\* is not answered with Conflict, and the `running` record it then writes
\* is fresh.
C3_StaleRunningIsReaped ==
    /\ \A k \in {"backup", "restore"} :
           (/\ poll[k].at # NoTime
            /\ poll[k].read.status = "running"
            /\ poll[k].read.startedAt # NoTime
            /\ poll[k].at - poll[k].read.startedAt > StaleHours)
           => /\ poll[k].ans.status = "failed"
              /\ poll[k].ans.finishedAt = poll[k].at
              /\ poll[k].stored = poll[k].ans
    /\ \A r \in Reqs :
           req[r].kind \in {"backup", "restore"} =>
               /\ (\/ req[r].before.status # "running"
                   \/ /\ req[r].before.startedAt # NoTime
                      /\ req[r].at - req[r].before.startedAt > StaleHours)
                  => req[r].resp # "Conflict"
               /\ (/\ req[r].pc \in {"backup", "rrun"}
                   /\ now - req[r].claimedAt <= StaleHours)
                  => status[req[r].kind] =
                         [status |-> "running", startedAt |-> req[r].claimedAt,
                          finishedAt |-> NoTime, message |-> ""]

C3_Witness ==
    \E r \in Reqs :
        LET k == req[r].kind
        IN /\ k \in {"backup", "restore"}
           /\ poll[k].read.status = "running"
           /\ poll[k].at - poll[k].read.startedAt > StaleHours
           /\ poll[k].ans.status = "failed"
           /\ req[r].before = poll[k].ans
           /\ req[r].pc \in {"backup", "rrun"}
           /\ status[k].status = "running"
           /\ status[k].startedAt = req[r].at

\* C4: with ceiling M > 0, a listing of N >= M snapshots and a protected
\* subset P that does not cover it, the retention step issues exactly
\* N - M + 1 forget calls, on the N - M + 1 oldest snapshots outside P,
\* oldest first.
C4_ForgetsOldestUnprotected ==
    \A r \in Reqs :
        (/\ req[r].pc = "claim"
         /\ req[r].listRes = "reached"
         /\ req[r].lockedAtList # req[r].listed)
        => LET k == Cardinality(req[r].listed) - req[r].maxBackups + 1
               u == SortByTime(req[r].listed \ req[r].lockedAtList)
           IN /\ req[r].calls = k
              /\ Len(u) >= k
              /\ req[r].forgot = SubSeq(u, 1, k)

\* C5: with ceiling M > 0 and a listing of N >= M snapshots that are all
\* protected, the request is rejected with the all-locked error, no forget
\* call and no backup invocation happens, and the status record stays as it
\* was.
C5_AllProtectedIsRejected ==
    \A r \in Reqs :
        (/\ req[r].listRes = "reached"
         /\ req[r].lockedAtList = req[r].listed)
        => /\ req[r].pc \in {"fallback", "done"}
           /\ req[r].pc = "done" => req[r].resp = "AllLocked"
           /\ req[r].calls = 0
           /\ req[r].invoked = 0
           /\ status["backup"] = req[r].before

\* C6: the retention step of create-backup never passes to forget the id
\* of a snapshot that carries the tag `locked`.
C6_LockedNeverForgotten ==
    \A r \in Reqs : req[r].forgotLocked \cap req[r].lockedAtList = {}

\* C7: with ceiling M on a repository of exactly M unprotected snapshots, no
\* other request and successful tool calls: one forget call, on the oldest
\* snapshot, made before the backup invocation; the backup succeeds and
\* leaves M snapshots.
C7_OneOldestDeletedThenCreated ==
    \A r \in Reqs :
        (/\ req[r].kind = "backup"
         /\ ~api
         /\ req[r].listRes = "reached"
         /\ Cardinality(req[r].listed) = req[r].maxBackups
         /\ req[r].lockedAtList = {})
        => LET oldest == CHOOSE x \in req[r].listed : \A y \in req[r].listed : x <= y
           IN /\ req[r].pc = "claim"
                 => (req[r].forgot = <<oldest>> /\ req[r].calls = 1 /\ req[r].invoked = 0)
              /\ req[r].invoked > 0 => (req[r].forgot = <<oldest>> /\ req[r].calls = 1)
              /\ (req[r].pc = "done" /\ req[r].out = "ok" /\ req[r].invoked = 1)
                 => /\ Cardinality(snaps) = req[r].maxBackups
                    /\ oldest \notin snaps
                    /\ (req[r].listed \ {oldest}) \subseteq snaps

C7_Witness ==
    \E r \in Reqs :
        /\ req[r].kind = "backup" /\ ~api
        /\ req[r].listRes = "reached"
        /\ req[r].maxBackups = MaxSnaps
        /\ req[r].listed = 1..MaxSnaps
        /\ req[r].lockedAtList = {}
        /\ req[r].forgot = <<1>>
        /\ req[r].pc = "done" /\ req[r].out = "ok" /\ req[r].invoked = 1
        /\ Cardinality(snaps) = MaxSnaps

\* C8: with byte ceiling B > 0 and a repository of size >= B, the request
\* is rejected before any listing, forget call, `running` write or backup
\* invocation.
C8_ByteCeilingRejects ==
    \A r \in Reqs :
        (/\ req[r].sizeRes # "none"
         /\ req[r].sizeAt >= req[r].maxRepoBytes)
        => /\ req[r].pc = "done" /\ req[r].resp = "SizeLimit"
           /\ req[r].listRes = "none"
           /\ req[r].calls = 0
           /\ req[r].claimedAt = NoTime
           /\ req[r].invoked = 0

\* C9: the backup tool is invoked only after every capacity check the
\* request asked for was evaluated on a size or listing actually obtained.
C9_CapacityCheckNeverSkipped ==
    \A r \in Reqs :
        (req[r].kind = "backup" /\ req[r].invoked > 0)
        => /\ req[r].maxRepoBytes > 0 => req[r].sizeRes = "below"
           /\ req[r].maxBackups > 0 => req[r].listRes \in {"below", "reached"}

\* C10: all calls of resolveResticKey on one location return the same key.
C10_FirstWriteWins ==
    \A r1, r2 \in Reqs :
        (req[r1].resolved # NoKey /\ req[r2].resolved # NoKey)
        => req[r1].resolved = req[r2].resolved

C12_YoungLockIsBusyConflict ==
    \A r \in Reqs :
        req[r].first \in {"lockedYoung", "lockedNoTs"} =>
            /\ req[r].pc = "done"
            /\ req[r].unlocks = 0
            /\ req[r].invoked = 1
            /\ ~req[r].async => req[r].resp = "RepoBusy"
            /\ status["backup"].status = "failed"
            /\ status["backup"].message = BusyMsg

\* C13: the repository is destroyed and re-initialised only after a key
\* mismatch on a config at most 2 minutes old and a size within 1 MiB, and no
\* other step of the recovery logic removes a snapshot.
C13_ReinitOnlyWhenSafe ==
    [][\A r \in Reqs :
          /\ req'[r].pc = "reinit"
             => /\ req'[r].first = "mismatch"
                /\ req'[r].recentAt
                /\ req'[r].duAt
                /\ req'[r].sizeAtFail <= ReinitMaxSize
          /\ req'[r].reinits > req[r].reinits => req[r].pc = "reinit"
          /\ (req[r].pc \in {"backup", "unlock", "retry"} /\ req'[r] # req[r])
             => snaps \subseteq snaps']_vars

C13_Witness ==
    \E r \in Reqs :
        /\ req[r].reinits = 1
        /\ req[r].first = "mismatch" /\ req[r].recentAt /\ req[r].sizeAtFail = 1
        /\ snaps = {}

\* C14: when the key-mismatch remediation fires, the repository is
\* re-initialised with the key the request supplied and the key file holds
\* that key afterwards.
C14_ReinitWithSuppliedKey ==
    \A r \in Reqs :
        (req[r].pc = "retry" /\ req[r].reinits = 1)
        => /\ repoKey = req[r].key
           /\ TrimSpace(keyFile) = req[r].key

\* C15: per request at most two backup invocations, one unlock call and one
\* re-initialisation; a first failure that is neither locked nor key
\* mismatch ends the request after one invocation with a `failed` record.
C15_BoundedRemediation ==
    \A r \in Reqs :
        req[r].kind = "backup" =>
            /\ req[r].invoked <= 2
            /\ req[r].unlocks <= 1
            /\ req[r].reinits <= 1
            /\ req[r].first = "other"
               => /\ req[r].pc = "done"
                  /\ req[r].invoked = 1
                  /\ req[r].unlocks = 0 /\ req[r].reinits = 0
                  /\ status["backup"].status = "failed"

C15_Witness ==
    \E r \in Reqs :
        /\ req[r].first = "lockedOld" /\ req[r].unlockOk
        /\ req[r].pc = "done" /\ req[r].out = "other"
        /\ req[r].invoked = 2
        /\ status["backup"].status = "failed"

\* C16: a prepare request made while the archive of its snapshot exists and
\* is non-empty invokes neither restic restore nor tar.
C16_CacheHitInvokesNothing ==
    \A r \in Reqs :
        (req[r].kind = "prepare" /\ req[r].cacheAt = "full") => req[r].invoked = 0

\* C17: the step that completes a prepare call, on whichever outcome, leaves
\* no scratch restore directory, and no archive file when tar failed.
C17_ScratchRemovedOnReturn ==
    [][\A r \in Reqs :
          (req[r].pc \in {"prestore", "parchive"} /\ req'[r].pc = "done")
          => /\ ~scratch'
             /\ req'[r].out \in {"ok", "reuse", "fail", "timeout", "tarfail"}
             /\ req'[r].out = "tarfail" => cache' = "absent"]_vars

C17_Witness ==
    \E r \in Reqs :
        /\ req[r].kind = "prepare" /\ req[r].pc = "done"
        /\ req[r].out = "tarfail" /\ req[r].invoked = 2
        /\ ~scratch /\ cache = "absent"

\* C18: an archive identifier that is outside the allow-list pattern, or
\* whose joined path is not strictly inside the archive root, is answered
\* with the invalid-id error before any file-system operation; every
\* accepted identifier resolves strictly inside the archive root, and only
\* that path is touched.
C18_ArchiveIdContained ==
    arch.handler # "none" =>
        LET id == arch.id
            inPattern == /\ id # <<>>
                         /\ id[1] \notin {".", "/", "-"}
                         /\ \A i \in 1..Len(id) : id[i] # "/"
            joined == JoinClean(ArchiveBase, id)
            inside == /\ Len(joined) > Len(ArchiveBase)
                      /\ SubSeq(joined, 1, Len(ArchiveBase)) = ArchiveBase
        IN /\ (~inPattern \/ ~inside) => (arch.resp = "InvalidId" /\ arch.ops = {})
           /\ arch.resp # "InvalidId"
              => /\ Len(arch.target) > Len(ArchiveBase)
                 /\ SubSeq(arch.target, 1, Len(ArchiveBase)) = ArchiveBase
                 /\ \A op \in arch.ops : op[2] = arch.target

C18_Witness ==
    /\ arch.handler = "delete"
    /\ arch.id = <<".", ".", "/", "a">>
    /\ arch.resp = "InvalidId"
    /\ arch.ops = {}

\* C19: for backup and restore, whatever polls interleave: an accepted
\* operation that finished with success leaves the record `completed` with an
\* empty message, and one that finished on a failure path leaves it `failed`
\* with a non-empty message.
C19_TerminalRecordMatchesOutcome ==
    \A r \in Reqs :
        (req[r].kind \in {"backup", "restore"} /\ req[r].pc = "done"
         /\ req[r].claimedAt # NoTime)
        => LET rec == status[req[r].kind]
           IN IF req[r].out = "ok"
              THEN rec.status = "completed" /\ rec.message = ""
              ELSE rec.status = "failed" /\ rec.message # ""

\* C20: the message of every stored status record, of every kind, is at most
\* 2000 characters long.
C20_MessageBounded ==
    \A k \in Kinds : Len(status[k].message) <= MsgMax

\* C21: a request answered with Conflict, because an operation is running or
\* because the repository is busy, leaves the status record of its kind as
\* it was before the request.
C21_ConflictLeavesRecord ==
    \A r \in Reqs :
        (req[r].pc = "done" /\ req[r].resp \in {"Conflict", "RepoBusy"})
        => status[req[r].kind] = req[r].before

\* C22: a request rejected for a missing parameter changes nothing: neither
\* a status record, nor the key file, the repository or the cache, whatever
\* the status record held before (a stale `running` one included).
C22_InvalidRequestMutatesNothing ==
    [][\A r \in Reqs :
        (req[r].pc = "idle" /\ req'[r].resp = "BadRequest")
        => /\ status' = status
           /\ <<keyFile, repoKey, snaps, locked>>' = <<keyFile, repoKey, snaps, locked>>
           /\ <<scratch, cache>>' = <<scratch, cache>>]_vars

\* C23: with concurrent writers and readers of one status file, a read
\* returns the whole previous record (or finds no file yet) or the whole
\* record of one writer, never a partial one.
C23_ReadsAreWholeRecords ==
    fs.got \in {"none", "absent", "prev"} \cup {RecordOf(w) : w \in Reqs}

\* C24: while an accepted operation R is in flight and the stored record is
\* the `running` record R wrote, no other request's failure or completion
\* write replaces that record.
C24_OnlyOwnerEndsRunning ==
    [][\A r \in Reqs : \A q \in Others(r) :
        LET k == req[r].kind
        IN (/\ k \in {"backup", "restore"}
            /\ req[r].pc \in {"backup", "unlock", "reinit", "retry", "rrun"}
            /\ status[k] = [status |-> "running", startedAt |-> req[r].claimedAt,
                            finishedAt |-> NoTime, message |-> ""]
            /\ req[q].pc # "done" /\ req'[q].pc = "done")
           => status'[k] = status[k]]_vars

\* C25: a status poll of backup or restore changes the stored record only
\* by turning a stale `running` record into `failed`: any other record it
\* leaves as stored, also when a claim or a terminal write falls between the
\* poll's read and its write; hence a second poll changes nothing.
C25_PollOnlyReapsStale ==
    [][\A k \in {"backup", "restore"} :
        poll'[k] # poll[k]
        => \/ status'[k] = status[k]
           \/ PollStale(status[k], now) /\ status'[k] = Reap(status[k], now, k)]_vars

\* C26: a claim of `running`, for any kind, over a record that is absent,
\* terminal or stale writes a fresh record: `running`, started at the time of
\* the claim, no finish time and no message.
C26_ClaimWritesFreshRecord ==
    [][\A r \in Reqs :
        LET k == req'[r].kind
            claims == \/ req[r].pc = "claim" /\ req'[r].pc = "backup"
                      \/ req[r].pc = "rclaim" /\ req'[r].pc = "rrun"
                      \/ req[r].pc = "idle" /\ req'[r].pc = "prestore" /\ req'[r].async
        IN (claims /\ (status[k].status # "running" \/ PollStale(status[k], now)))
           => status'[k] = [status |-> "running", startedAt |-> now,
                            finishedAt |-> NoTime, message |-> ""]]_vars

\* C27: for every kind, an asynchronous request is answered Accepted with
\* the `running` record written and the tool not yet awaited, and a
\* synchronous request that ran its operation is answered only once the
\* terminal record of that outcome is written.
C27_AnswerFollowsRecord ==
    [][\A r \in Reqs :
        LET k == req'[r].kind
            accepted == req[r].resp = "none" /\ req'[r].resp = "Accepted"
            finished == /\ ~req[r].async
                        /\ req[r].pc \in {"backup", "unlock", "reinit", "retry", "rrun",
                                          "prestore", "parchive"}
                        /\ req'[r].pc = "done"
        IN /\ accepted => (status'[k].status = "running" /\ req'[r].pc # "done")
           /\ finished => status'[k].status =
                             IF req'[r].resp # "OK" THEN "failed"
                             ELSE IF k = "prepare" THEN "ready" ELSE "completed"]_vars

\* C28: every accepted operation whose `running` record is written has its
\* record moved to a terminal state sooner or later, also when the tool
\* never ends by itself.
C28_RunningEventuallyTerminal ==
    \A r \in Reqs : \A k \in Kinds :
        (/\ req[r].kind = k
         /\ \/ req[r].pc \in {"backup", "unlock", "reinit", "retry", "rrun"}
            \/ req[r].pc \in {"prestore", "parchive"} /\ req[r].async)
        ~> (status[k].status \in {"completed", "failed", "ready"})

\* C29: kinds are independent on one server: a step of a request of one
\* kind leaves the status records of the other kinds as they are, and a
\* request is answered Conflict only when the record of its own kind is
\* `running`, whatever the records of the other kinds hold.
C29_KindsIndependent ==
    [][\A r \in Reqs :
        req'[r] # req[r]
        => /\ \A k \in Kinds \ {req'[r].kind} : status'[k] = status[k]
           /\ (req[r].pc = "idle" /\ req'[r].resp = "Conflict")
              => status[req'[r].kind].status = "running"]_vars

C29_Witness ==
    \E r \in Reqs : \E q \in Others(r) :
        /\ req[r].kind = "backup" /\ req[r].pc = "backup" /\ req[r].resp = "Accepted"
        /\ req[q].kind = "restore" /\ req[q].pc = "rrun" /\ req[q].claimedAt < req[r].at
        /\ status["restore"].status = "running"
        /\ status["backup"].status = "running"

\* C30: resolveRepoDir(serverId, ownerHint) returns the serverId+ownerHint
\* directory if it exists, else the bare serverId directory if it exists,
\* else an existing directory whose name starts with serverId and "+", else
\* the default name; the result is never the directory of another server.
C30_ResolvePrefersExisting ==
    root.id # <<>> =>
        LET id == root.id
            hint == root.hint
            full == id \o <<"+">> \o hint
            mine(d) == d = id \/ (Len(d) > Len(id) /\ SubSeq(d, 1, Len(id) + 1) = id \o <<"+">>)
            renamed == {d \in root.dirs : d # id /\ mine(d)}
        IN /\ IF hint # <<>> /\ full \in root.dirs THEN root.res = full
              ELSE IF id \in root.dirs THEN root.res = id
              ELSE IF renamed # {} THEN root.res \in renamed
              ELSE root.res = (IF hint # <<>> THEN full ELSE id)
           /\ mine(root.res)

C30_Witness ==
    /\ root.id = <<"a">> /\ root.hint = <<"b">>
    /\ root.dirs = {<<"a", "a">>, <<"a", "+", "c">>, <<"a", "a", "+", "b">>}
    /\ root.files = {<<"a">>}
    /\ root.res = <<"a", "+", "c">>

\* C31: a prepare request that finds a zero-byte cache file rebuilds the
\* archive instead of reusing the file, and after any successful prepare
\* the cache file is a non-empty archive.
C31_EmptyCacheIsRebuilt ==
    [][\A r \in Reqs :
        (req[r].pc = "parchive" /\ req'[r].pc = "done" /\ req'[r].resp \in {"OK", "Accepted"}
         /\ req'[r].out \in {"ok", "reuse"})
        => /\ cache' = "full"
           /\ cache = "empty" => (req'[r].out = "ok" /\ req'[r].invoked = req[r].invoked + 1)
           /\ req'[r].out = "reuse" => cache = "full"]_vars

C31_Witness ==
    \E r \in Reqs :
        /\ req[r].kind = "prepare" /\ req[r].pc = "done" /\ req[r].cacheAt = "empty"
        /\ req[r].out = "ok" /\ req[r].resp = "OK"
        /\ cache = "full"

\* C32: deleting a server's repository moves each of its repository
\* directories under the archive root: for every directory that leaves the
\* storage root, the archive root gains an entry and loses none.
C32_DeleteMovesToArchive ==
    [][root'.dirs # root.dirs
       => /\ arch.dirs \subseteq arch'.dirs
          /\ Cardinality(arch'.dirs \ arch.dirs) = Cardinality(root.dirs \ root'.dirs)]_vars

\* C33: whenever a handler has built the Env of a tool command, for every
\* operation and every environment of the daemon, that Env holds exactly one
\* entry named RESTIC_PASSWORD and its value is the key resolved for the
\* request (the stored key when the key file holds one, else the supplied key).
C33_OnePasswordEntry ==
    cmd.op # "none" =>
        LET pw == {i \in 1..Len(cmd.env) : NameOf(cmd.env[i]) = EnvName}
        IN /\ Cardinality(pw) = 1
           /\ \A i \in pw : cmd.env[i] = Entry(EnvName, cmd.resolved)

\* C34: the state of every status record on disk, of every kind, and of every
\* status answered to a poller, is one of idle, running, completed, failed
\* (the empty state stands for "no record written" and "no poll answered").
C34_StateInFourValues ==
    \A k \in Kinds :
        /\ status[k].status \in {"", "idle", "running", "completed", "failed"}
        /\ poll[k].ans.status \in {"", "idle", "running", "completed", "failed"}

\* C35: every snapshot of an answered listing has locked = TRUE exactly when
\* the snapshot carries the tag "locked" in the repository, whether the tags
\* came inlined or through the tag-filtered fallback query, and every
\* snapshot answered as locked has "locked" among its returned tags.
C35_LockedFlagMatchesTag ==
    (lst.pc = "done" /\ lst.resp = "ok") =>
        \A i \in 1..Len(lst.page) :
            /\ lst.page[i].locked = (lst.page[i].id \in locked)
            /\ lst.page[i].locked => "locked" \in lst.page[i].tags

\* C40: a client that follows next_cursor from the first page sees no
\* snapshot twice, sees them newest first, gets at most limit (and never more
\* than the cap) per page, and, once next_cursor is empty, has seen every
\* snapshot that passes the since/until filter.
C40_CursorWalkIsExact ==
    (lst.pc = "done" /\ lst.resp = "ok") =>
        /\ Len(lst.page) <= lst.limit /\ lst.limit <= ListLimitCap
        /\ \A i, j \in 1..Len(lst.seen) :
              /\ lst.seen[i] = lst.seen[j] => i = j
              /\ i < j => SnapTime(lst.seen[i]) >= SnapTime(lst.seen[j])
        /\ lst.next = "" =>
              {lst.seen[i] : i \in 1..Len(lst.seen)}
                  = {s \in snaps : PassesRange(s, lst.since, lst.until)}

\* C36: two overlapping create-backup requests with the same count ceiling M
\* on a repository that held N >= M snapshots delete together at most
\* N - M + 1 snapshots.
C36_ConcurrentDeletionsBounded ==
    LET created == Cardinality({r \in Reqs : req[r].pc = "done" /\ req[r].out = "ok"})
        n == nextId - 1 - created
        deleted == Len(req[1].forgot) + Len(req[2].forgot)
    IN (/\ \A r \in Reqs : req[r].kind = "backup"
        /\ req[1].maxBackups = req[2].maxBackups
        /\ n >= req[1].maxBackups)
       => deleted <= n - req[1].maxBackups + 1

\* C37: two prepare requests for the same server and snapshot do not
\* interfere: while a request's restic or tar process is running no other
\* request removes the scratch directory or the file at the cache path, and
\* a request ends in success (or writes ready) only with a completely
\* written cache file.
C37_PreparesDoNotInterfere ==
    [][\A r \in Reqs :
          /\ (req[r].pc \in {"prestoring", "ptarring"} /\ req'[r] = req[r])
             => /\ ~(scratch /\ ~scratch')
                /\ (req[r].pc = "ptarring" /\ writer = r) => writer' = r
          /\ (/\ req[r].kind = "prepare" /\ req[r].pc # "done" /\ req'[r].pc = "done"
              /\ req'[r].out \in {"ok", "reuse"})
             => cache' = "full"]_vars

\* C38: when a create-backup request with count ceiling M > 0 has ended in
\* success, no lock, unlock or prune request having run, and the snapshots
\* the repository held before were not all protected, the repository holds
\* at most M snapshots.
C38_AtMostCeilingAfterSuccess ==
    \A r \in Reqs :
        LET new == nextId - 1
            prior == (snaps \cup {req[r].forgot[i] : i \in 1..Len(req[r].forgot)}) \ {new}
            protected == (locked \cup req[r].forgotLocked) \cap prior
        IN (/\ req[r].kind = "backup" /\ ~api
            /\ req[r].pc = "done" /\ req[r].out = "ok"
            /\ req[r].maxBackups > 0
            /\ protected # prior \/ prior = {})
           => Cardinality(snaps) <= req[r].maxBackups

\* C39 (as stated): a create-backup request with no count ceiling (max <= 0),
\* or whose listing showed fewer snapshots than the ceiling, issues no
\* forget call, and none of its steps changes the set of snapshots except by
\* adding the new one.
C39_NothingDeletedBelowCeiling ==
    [][\A r \in Reqs :
          (/\ req'[r] # req[r]
           /\ req'[r].kind = "backup"
           /\ \/ req'[r].maxBackups <= 0
              \/ /\ req'[r].listRes \notin {"none", "fail"}
                 /\ Cardinality(req'[r].listed) < req'[r].maxBackups)
          => /\ req'[r].calls = 0 /\ req'[r].forgot = <<>>
             /\ snaps \subseteq snaps'
             /\ snaps' \subseteq snaps \cup {nextId}]_vars

\* C39 (amended): the same, except for the step in which the key-mismatch
\* remediation destroys and re-initialises the repository.
C39_NothingForgottenBelowCeiling ==
    [][\A r \in Reqs :
          (/\ req'[r] # req[r]
           /\ req'[r].kind = "backup"
           /\ \/ req'[r].maxBackups <= 0
              \/ /\ req'[r].listRes \notin {"none", "fail"}
                 /\ Cardinality(req'[r].listed) < req'[r].maxBackups)
          => /\ req'[r].calls = 0 /\ req'[r].forgot = <<>>
             /\ req[r].pc # "reinit"
                => (snaps \subseteq snaps' /\ snaps' \subseteq snaps \cup {nextId})]_vars

C39_Witness ==
    \E r \in Reqs :
        /\ req[r].kind = "backup" /\ ~api
        /\ req[r].maxBackups = MaxSnaps /\ req[r].listRes = "below"
        /\ Cardinality(req[r].listed) = MaxSnaps - 1
        /\ req[r].pc = "done" /\ req[r].out = "ok"
        /\ req[r].calls = 0
        /\ snaps = req[r].listed \cup {nextId - 1}

====
